---- MODULE Spec2Model ----
(***************************************************************************)
(* A model of rdio-monitor (src/rdio_scanner.py): the calls table of       *)
(* DatabaseManager, the poll cycle of RdioScannerMonitor, the audio        *)
(* pipeline of AudioProcessor and the health check of SystemMonitor.       *)
(*                                                                         *)
(* Time is counted in ticks of one clock. Instants are only compared with  *)
(* one another: fetch_calls truncates last_poll_time to whole seconds, so  *)
(* a tick stands for a second there, and for a day where the retention is  *)
(* compared with an age.                                                   *)
(***************************************************************************)
EXTENDS Integers, Sequences, FiniteSets, TLC

\* ------------------------------------------------------------------ bounds
MaxTime == 2          \* the clock runs from 1 to MaxTime
MaxBatch == 2         \* longest list handed to insert_call_records_batch
PoolSize == 2         \* [database] pool_size of the configuration

CallIds == {"A1", "A2"}
Talkgroups == {"55", "56"}
NoTime == -1          \* last_poll_time = None
NoUrl == "None"       \* audio_url = None
NoFile == <<"None", 0, "">>    \* no path: download_audio, process_audio return None
NoPath == NoFile      \* audio_file_path = None
Urls == {"http://x/a.wav"}

\* ------------------------------------------------------------ CallRecord
\* The fields of CallRecord that the pipeline reads or overwrites; the other
\* columns (frequency, source, duration, ...) are overwritten by the upsert
\* exactly as talkgroup is.
CallRecord(id, ts, tg, url) ==
    [call_id |-> id, timestamp |-> ts, talkgroup |-> tg, audio_url |-> url,
     audio_file_path |-> NoPath, processed |-> FALSE]

\* The records a caller of the store can hand to it: for each call the
\* record as parse_call_record builds it, and the record of its revision
\* (another talkgroup) after _process_call_audio has set processed.
RecordSet ==
    {[CallRecord(id, 0, v[1], url) EXCEPT !.processed = v[2]] :
        id \in CallIds, url \in Urls,
        v \in {<<"55", FALSE>>, <<"56", TRUE>>}}

\* --------------------------------------------------------- DatabaseManager
\* A row of the calls table. created_at is DEFAULT NOW() and is not in the
\* SET list of the upsert.
RowOf(rec, created) ==
    [call_id |-> rec.call_id, timestamp |-> rec.timestamp,
     talkgroup |-> rec.talkgroup, audio_url |-> rec.audio_url,
     audio_file_path |-> rec.audio_file_path, processed |-> rec.processed,
     created_at |-> created]

RowsOf(table, id) == {r \in table : r.call_id = id}

\* INSERT of one row without the ON CONFLICT clause (and without the UNIQUE
\* constraint that backs it).
UpsertRowNoConflict(table, rec, t) == table \cup {RowOf(rec, t)}

\* An upsert whose SET list named created_at as well.
UpsertRowRestamps(table, rec, t) ==
    {r \in table : r.call_id # rec.call_id} \cup {RowOf(rec, t)}

\* INSERT ... ON CONFLICT (call_id) DO UPDATE SET <every column> = EXCLUDED.
UpsertRow(table, rec, t) ==
    IF RowsOf(table, rec.call_id) = {}
    THEN table \cup {RowOf(rec, t)}
    ELSE {IF r.call_id = rec.call_id THEN RowOf(rec, r.created_at) ELSE r :
          r \in table}

\* get_connection: ThreadedConnectionPool.getconn raises PoolError (a
\* psycopg2.Error) when every connection is checked out.
PoolAvailable(out) == out < PoolSize

VARIABLES
    calls,           \* DatabaseManager: the rows of the calls table
    pool_out,        \* connections checked out of connection_pool
    pool_closed,     \* connection_pool.closeall() has run
    last_op,        \* the call made last from outside: name, argument, result
    now,             \* the clock
    config,          \* the configuration file's values
    remote,          \* the calls the remote API serves
    files,           \* AudioProcessor: the files of storage_path
    pc,              \* RdioScannerMonitor: where the main thread stands
    running,         \* self.running
    shutdown_event,  \* self.shutdown_event
    last_poll_time,  \* self.last_poll_time
    call_records,    \* poll_and_process_calls: the parsed batch
    inserted_count,  \* poll_and_process_calls: insert_call_records_batch's result
    idx,             \* poll_and_process_calls: the record the audio loop is at
    call_count,      \* SystemMonitor.call_count
    error_count,     \* SystemMonitor.error_count
    processing_times, \* SystemMonitor.processing_times
    lock,            \* SystemMonitor.lock: the thread that holds it
    workers,         \* the threads that call SystemMonitor: where each stands
    recorded,        \* every duration appended to processing_times, in order
    exit_code,       \* the process's exit status (NoTime while it runs)
    fetched,         \* the call ids fetch_calls has returned so far
    health           \* perform_health_check: the probes' results and the status

storeVars == <<calls, pool_out, pool_closed, last_op>>
envVars == <<now, config, remote>>
orchVars == <<pc, running, shutdown_event, last_poll_time, call_records,
              inserted_count, idx, exit_code, fetched>>
statsVars == <<processing_times, lock, workers, recorded>>
monitorVars == <<call_count, error_count, processing_times, lock, workers,
                 recorded>>
vars == <<calls, pool_out, pool_closed, last_op, now, config, remote, files,
          pc, running, shutdown_event, last_poll_time, call_records,
          inserted_count, idx, call_count, error_count, processing_times,
          lock, workers, recorded, exit_code, fetched, health>>

NoOp == [name |-> "none", arg |-> <<>>, id |-> "", ret |-> 0]

\* ON CONFLICT DO UPDATE cannot affect a row a second time: a statement
\* proposing two rows with one call_id raises CardinalityViolation (a
\* psycopg2.Error). execute_values sends up to 100 rows per statement.
FirstRepeat(recs) ==
    LET dup == {j \in 1..Len(recs) :
                   \E i \in 1..(j - 1) : recs[i].call_id = recs[j].call_id}
    IN IF dup = {} THEN 0 ELSE CHOOSE j \in dup : \A k \in dup : j <= k

\* The row at which the batch fails: the injected store fault, or the first
\* repeated call_id; 0 when the statement succeeds.
BatchFailsAt(recs, fault) == IF fault > 0 THEN fault ELSE FirstRepeat(recs)

RECURSIVE UpsertAll(_, _, _, _)
\* The table after rows 1..n of the batch have been applied in list order.
UpsertAll(table, recs, n, t) ==
    IF n = 0 THEN table
    ELSE UpsertRow(UpsertAll(table, recs, n - 1, t), recs[n], t)

\* A store that commits each row as it is written.
AbortedBatchAutocommit(table, recs, k, t) == UpsertAll(table, recs, k - 1, t)

\* The table after a batch failed at row k: the connection goes back to the
\* pool without a commit (the finally clause), and putconn rolls back the
\* open transaction.
AbortedBatch(table, recs, k, t) == table

\* insert_call_records_batch: the returned count and the table afterwards.
InsertCallRecordsBatch(table, recs, t, out, fault) ==
    IF recs = <<>> THEN [ret |-> 0, table |-> table]
    ELSE IF ~PoolAvailable(out) THEN [ret |-> 0, table |-> table]
    ELSE IF BatchFailsAt(recs, fault) > 0
         THEN [ret |-> 0,
               table |-> AbortedBatch(table, recs, BatchFailsAt(recs, fault), t)]
         ELSE [ret |-> Len(recs), table |-> UpsertAll(table, recs, Len(recs), t)]

\* insert_call_record: 1 for True, 0 for False.
InsertCallRecord(table, rec, t, out, fault) ==
    IF ~PoolAvailable(out) \/ fault THEN [ret |-> 0, table |-> table]
    ELSE [ret |-> 1, table |-> UpsertRow(table, rec, t)]

\* mark_call_processed whose UPDATE has lost its WHERE clause.
MarkCallProcessedAll(table, id, out, fault) ==
    IF ~PoolAvailable(out) \/ fault THEN [ret |-> 0, table |-> table]
    ELSE [ret |-> IF table = {} THEN 0 ELSE 1,
          table |-> {[r EXCEPT !.processed = TRUE] : r \in table}]

\* mark_call_processed: UPDATE calls SET processed = TRUE WHERE call_id = id;
\* True only when a row was updated.
MarkCallProcessed(table, id, out, fault) ==
    IF ~PoolAvailable(out) \/ fault THEN [ret |-> 0, table |-> table]
    ELSE [ret |-> IF RowsOf(table, id) = {} THEN 0 ELSE 1,
          table |-> {IF r.call_id = id THEN [r EXCEPT !.processed = TRUE] ELSE r :
                     r \in table}]

\* A DELETE that goes by the call's own timestamp instead of created_at.
CleanupOldRecordsByTimestamp(table, days, t, out, fault) ==
    IF ~PoolAvailable(out) \/ fault THEN [ret |-> 0, table |-> table]
    ELSE [ret |-> Cardinality({r \in table : r.timestamp < t - days}),
          table |-> {r \in table : ~(r.timestamp < t - days)}]

\* cleanup_old_records: DELETE FROM calls WHERE created_at < NOW() - days.
CleanupOldRecords(table, days, t, out, fault) ==
    IF ~PoolAvailable(out) \/ fault THEN [ret |-> 0, table |-> table]
    ELSE [ret |-> Cardinality({r \in table : r.created_at < t - days}),
          table |-> {r \in table : ~(r.created_at < t - days)}]

\* ------------------------------------------------------- RdioScannerClient
\* A value of a raw API record: None, a string or a number.
None == [k |-> "none", s |-> "", n |-> 0]
Str(x) == [k |-> "str", s |-> x, n |-> 0]
Num(x) == [k |-> "num", s |-> "", n |-> x]

\* Python truthiness: None, "" and 0 are falsy.
Truthy(v) == (v.k = "str" /\ v.s # "") \/ (v.k = "num" /\ v.n # 0)

\* dict.get(key): None when the key is absent.
Get(raw, key) == IF key \in DOMAIN raw THEN raw[key] ELSE None

RECURSIVE OrChain(_, _)
\* raw.get(k1) or raw.get(k2) or ...: the first truthy value, else the value
\* under the last key.
OrChain(raw, keys) ==
    IF Len(keys) = 1 THEN Get(raw, keys[1])
    ELSE IF Truthy(Get(raw, keys[1])) THEN Get(raw, keys[1])
    ELSE OrChain(raw, Tail(keys))

\* str(value)
PyStr(v) == IF v.k = "str" THEN v.s ELSE ToString(v.n)

\* parse_call_record, for a raw record that is a dict: uuid is the value
\* uuid.uuid4() returns and t the clock read by the timestamp fallbacks.
ParseCallRecord(raw, uuid, t) ==
    LET idv == OrChain(raw, <<"id", "call_id">>)
        tsv == OrChain(raw, <<"timestamp", "time", "datetime">>)
        tgv == OrChain(raw, <<"talkgroup", "tg">>)
        urlv == OrChain(raw, <<"audio_url", "audioUrl", "audio", "file">>)
    IN [call_id |-> IF Truthy(idv) THEN PyStr(idv) ELSE uuid,
        timestamp |-> IF tsv.k = "num" THEN tsv.n ELSE t,
        talkgroup |-> IF tgv.k = "none" THEN "None" ELSE PyStr(tgv),
        audio_url |-> IF urlv.k = "none" THEN NoUrl ELSE PyStr(urlv),
        audio_file_path |-> NoPath,
        processed |-> FALSE]

\* What parse_call_record returns for None.
NoRecord == CallRecord("", NoTime, "", NoUrl)

\* float(value) raises ValueError: the value is a string that is no number.
FloatRaises(v) == v.k = "str" /\ v.s \notin {"0", "1"}

\* parse_call_record raises inside its try statement: the raw call is no
\* dict (it has no get), or a truthy frequency or duration cannot be
\* coerced by float().
ParseRaises(raw) ==
    \/ "k" \in DOMAIN raw
    \/ \E key \in {"frequency", "duration"} :
          Truthy(Get(raw, key)) /\ FloatRaises(Get(raw, key))

\* A parse_call_record without its except clause would hand the record on
\* with whatever it had got to.
ParseCallRecordOrNoneUnguarded(raw, uuid, t) ==
    IF "k" \in DOMAIN raw THEN CallRecord(uuid, t, "None", NoUrl)
    ELSE ParseCallRecord(raw, uuid, t)

\* parse_call_record(api_call): the record, or None when anything raised.
ParseCallRecordOrNone(raw, uuid, t) ==
    IF ParseRaises(raw) THEN NoRecord ELSE ParseCallRecord(raw, uuid, t)

\* poll_and_process_calls, the parse loop: the records of the raw calls in
\* their order, those that parsed to None left out.
ParsedBatch(raws, uuid, t) ==
    SelectSeq([i \in 1..Len(raws) |-> ParseCallRecordOrNone(raws[i], uuid, t)],
              LAMBDA rec : rec # NoRecord)

\* A JSON value as fetch_calls meets it: an array of raw calls, null, a
\* string or a number; Absent for a key the object does not have.
RawLists == {<<>>, <<[id |-> Str("A1")]>>}
EmptyList == [k |-> "list", v |-> <<>>]
Absent == [k |-> "absent", v |-> <<>>]
JsonLeaves ==
    {[k |-> "list", v |-> l] : l \in RawLists}
        \cup {[k |-> x, v |-> <<>>] : x \in {"null", "str", "num"}}

\* The bodies of a response: a bare value, or an object that may have a
\* calls key and a data key (under data: an array of calls, or null).
JsonBodies ==
    {[k |-> leaf.k, v |-> leaf.v, calls |-> Absent, data |-> Absent] :
        leaf \in JsonLeaves}
    \cup [k : {"obj"}, v : {<<>>}, calls : JsonLeaves \cup {Absent},
          data : {d \in JsonLeaves : d.k = "null" \/ d.v # <<>>}
                     \cup {Absent}]

\* What the request meets: the connection fails, the timeout passes, the
\* status is an error (raise_for_status), the body is no JSON, or a body.
ApiResponses ==
    [transport : {"connection_error", "timeout", "http_error", "bad_json"},
     body : {[k |-> "null", v |-> <<>>, calls |-> Absent, data |-> Absent]}]
    \cup [transport : {"ok"}, body : JsonBodies]

\* fetch_calls, the if chain over the decoded body: the value taken for
\* the call list.
Envelope(body) ==
    IF body.k = "list" THEN [k |-> "list", v |-> body.v]
    ELSE IF body.k = "obj" /\ body.calls # Absent THEN body.calls
    ELSE IF body.k = "obj" /\ body.data # Absent THEN body.data
    ELSE EmptyList

\* len(value) works: the value is an array or a string.
Sized(leaf) == leaf.k \in {"list", "str"}

\* The exception raised inside fetch_calls' try statement, "none" if none:
\* by session.get, by raise_for_status, by response.json(), or by
\* len(calls) in the log line.
FetchRaises(resp) ==
    CASE resp.transport = "connection_error" -> "ConnectionError"
      [] resp.transport = "timeout" -> "Timeout"
      [] resp.transport = "http_error" -> "HTTPError"
      [] resp.transport = "bad_json" -> "JSONDecodeError"
      [] OTHER -> IF Sized(Envelope(resp.body)) THEN "none" ELSE "TypeError"

\* The classes an exception is an instance of.
Bases(exc) ==
    CASE exc \in {"ConnectionError", "Timeout", "HTTPError"} ->
            {"RequestException", "Exception"}
      [] exc = "JSONDecodeError" -> {"JSONDecodeError", "Exception"}
      [] OTHER -> {"Exception"}

\* fetch_calls with no except Exception clause.
FetchHandlersNoCatchAll == {"RequestException", "JSONDecodeError"}

\* The except clauses of fetch_calls.
FetchHandlers == {"RequestException", "JSONDecodeError", "Exception"}

\* fetch_calls: the exception that leaves it ("none" if none) and the value
\* it returns.
FetchCalls(resp) ==
    LET exc == FetchRaises(resp) IN
    IF exc = "none" THEN [raised |-> "none", ret |-> Envelope(resp.body)]
    ELSE IF Bases(exc) \cap FetchHandlers # {}
    THEN [raised |-> "none", ret |-> EmptyList]
    ELSE [raised |-> exc, ret |-> EmptyList]

\* The raw record the remote API serves for a call.
RawOf(c) ==
    [x \in {"id", "timestamp", "talkgroup"} \cup
           (IF c.url = NoUrl THEN {} ELSE {"audio_url"}) |->
        CASE x = "id" -> Str(c.id)
          [] x = "timestamp" -> Num(c.ts)
          [] x = "talkgroup" -> Str(c.tg)
          [] OTHER -> Str(c.url)]

\* ---------------------------------------------------------- AudioProcessor
Formats == {"mp3", "wav"}
MaxBytes == 2         \* largest payload, in chunks of 8192 bytes
NoLength == -1        \* the response carries no Content-Length header

\* A file of the storage directory: its name is call_id, the local time of
\* the download (to the second) and the extension.
FileName(f) == <<f.call_id, f.stamp, f.ext>>
FileAt(fs, name) == {f \in fs : FileName(f) = name}
Unlink(fs, name) == {f \in fs : FileName(f) # name}
\* open(path, 'wb') and the writes that follow: the file holds content.
WriteFile(fs, name, content, t) ==
    Unlink(fs, name) \cup
        {[call_id |-> name[1], stamp |-> name[2], ext |-> name[3],
          content |-> content, mtime |-> t]}

\* The responses of the audio server: status, declared Content-Length, the
\* chunks the body really holds, and the chunk count after which the
\* transfer breaks (NoLength for a transfer that does not break).
Responses ==
    [status : {"ok", "error"}, declared : {NoLength} \cup 0..MaxBytes,
     actual : 0..MaxBytes, breaks : {NoLength} \cup 0..(MaxBytes - 1)]

\* The chunks written before the streamed download stops, and why it stops.
Streamed(resp, max) ==
    LET over == {n \in 1..resp.actual : max > 0 /\ n > max}
        limit == IF over = {} THEN resp.actual + 1
                 ELSE CHOOSE n \in over : \A m \in over : n <= m
    IN IF resp.breaks # NoLength /\ resp.breaks < resp.actual
          /\ resp.breaks < limit
       THEN [why |-> "broken", written |-> resp.breaks]
       ELSE IF over # {} THEN [why |-> "too_large", written |-> limit]
       ELSE [why |-> "done", written |-> resp.actual]

\* A download_audio whose streaming guard returns None but forgets
\* file_path.unlink(): what was written stays on disk.
DownloadAudioKeepsOversize(fs, url, id, t, fmt, max, resp) ==
    LET name == <<id, t, fmt>> IN
    IF url = NoUrl THEN [path |-> NoFile, files |-> fs]
    ELSE IF resp.status = "error" THEN [path |-> NoFile, files |-> fs]
    ELSE IF resp.declared # NoLength /\ resp.declared > max
         THEN [path |-> NoFile, files |-> fs]
    ELSE CASE Streamed(resp, max).why \in {"too_large", "broken"} ->
                [path |-> NoFile, files |-> WriteFile(fs, name, "partial", t)]
           [] OTHER ->
                [path |-> name, files |-> WriteFile(fs, name, "raw", t)]

\* download_audio: the returned path (NoFile for None) and the directory.
DownloadAudio(fs, url, id, t, fmt, max, resp) ==
    LET name == <<id, t, fmt>> IN
    IF url = NoUrl THEN [path |-> NoFile, files |-> fs]
    ELSE IF resp.status = "error" THEN [path |-> NoFile, files |-> fs]
    ELSE IF resp.declared # NoLength /\ resp.declared > max
         THEN [path |-> NoFile, files |-> fs]
    ELSE CASE Streamed(resp, max).why = "too_large" ->
                [path |-> NoFile, files |-> Unlink(fs, name)]
           [] Streamed(resp, max).why = "broken" ->
                [path |-> NoFile, files |-> WriteFile(fs, name, "partial", t)]
           [] OTHER ->
                [path |-> name, files |-> WriteFile(fs, name, "raw", t)]

\* The Content-Length the response declares is over the maximum.
Advertised(resp, max) == resp.declared # NoLength /\ resp.declared > max

\* The chunks the server has sent when the transfer ends or breaks.
Observed(resp) ==
    IF resp.breaks # NoLength /\ resp.breaks < resp.actual
    THEN resp.breaks ELSE resp.actual

\* download_audio: the branch through which it returns.
DownloadOutcome(url, max, resp) ==
    IF url = NoUrl THEN "no_url"
    ELSE IF resp.status = "error" THEN "http_error"
    ELSE IF resp.declared # NoLength /\ resp.declared > max
         THEN "header_refused"
    ELSE Streamed(resp, max).why

\* What can go wrong in process_audio: the decode, the export before it
\* opens its destination, the export after it has opened (and truncated)
\* its destination.
TranscodeFaults == {"none", "decode", "export_before_open", "export_after_open"}

\* _normalize_audio: float(gain).bit_length() raises AttributeError unless
\* the peak amplitude is 0.
NormalizeRaises(peak_zero) == ~peak_zero

\* process_audio: the returned path (NoFile for None) and the directory.
ProcessAudio(fs, name, t, fmt, normalize, peak_zero, fault) ==
    LET out == <<name[1], name[2], fmt>> IN
    IF FileAt(fs, name) = {} THEN [path |-> NoFile, files |-> fs]
    ELSE IF fault = "decode" THEN [path |-> NoFile, files |-> fs]
    ELSE IF normalize /\ NormalizeRaises(peak_zero)
         THEN [path |-> NoFile, files |-> fs]
    ELSE IF fault = "export_before_open" THEN [path |-> NoFile, files |-> fs]
    ELSE IF fault = "export_after_open"
         THEN [path |-> NoFile, files |-> WriteFile(fs, out, "truncated", t)]
    ELSE IF fmt # name[3]
         THEN [path |-> out,
               files |-> Unlink(WriteFile(fs, out, "processed", t), name)]
         ELSE [path |-> out, files |-> WriteFile(fs, out, "processed", t)]

\* cleanup_old_files: files whose modification time is before the cutoff.
\* A sweep without the test of retention_days at its head.
CleanupOldFilesNoGuard(fs, days, t) == {f \in fs : ~(f.mtime < t - days)}

CleanupOldFiles(fs, days, t) ==
    IF days <= 0 THEN fs ELSE {f \in fs : ~(f.mtime < t - days)}

\* ------------------------------------------------------------ SystemMonitor
WindowSize == 2    \* samples processing_times keeps (1000 in the program)

\* The threads that call the monitor: the poll path and the health path.
Threads == {"poll", "health"}
NoThread == "none"

NoSnap == [calls |-> 0, errors |-> 0, samples |-> 0]

\* A thread outside the monitor. op is the method it has called, arg the
\* duration it passes, tmp the
\* counter value it has loaded, snap the statistics it built last, and
\* calls_done and errors_done count the record_call_processed and
\* record_error calls it has returned from.
Idle ==
    [pc |-> "idle", op |-> "none", arg |-> 0, tmp |-> 0, snap |-> NoSnap,
     calls_done |-> 0, errors_done |-> 0]

\* SystemMonitor.__init__: counters at 0, no sample, lock free.
StatsIdle ==
    /\ processing_times = <<>> /\ lock = NoThread
    /\ workers = [t \in Threads |-> Idle] /\ recorded = <<>>

\* A trim that kept the oldest samples.
TrimKeepsOldest(times) ==
    IF Len(times) > WindowSize THEN SubSeq(times, 1, WindowSize) ELSE times

\* record_call_processed, the trim: processing_times[-1000:] once the list
\* is longer than 1000.
Trim(times) ==
    IF Len(times) > WindowSize
    THEN SubSeq(times, Len(times) - WindowSize + 1, Len(times))
    ELSE times

\* The duration the orchestrator measures for a cycle.
CycleDuration == 1

\* ------------------------------------------------------ RdioScannerMonitor
MaxCycles == 2        \* poll cycles that run to their end or are broken off
MaxErrors == 1        \* poll cycles that an exception breaks off

\* The configurations the orchestrator is run with.
MainConfigs ==
    [max_calls_per_request : 1..MaxBatch, retention_days : {1},
     normalize_audio : {FALSE}, audio_format : {"mp3"}, max_file_size : {1}]

NoHealth ==
    [timestamp |-> 0, db |-> "", api |-> "", disk |-> "", memory |-> "",
     overall |-> ""]

Init ==
    /\ calls = {} /\ pool_out = 0 /\ pool_closed = FALSE /\ last_op = NoOp
    /\ now = 1 /\ config \in MainConfigs /\ remote = {} /\ files = {}
    /\ pc = "init" /\ running = FALSE /\ shutdown_event = FALSE
    /\ last_poll_time = NoTime /\ call_records = <<>> /\ inserted_count = 0
    /\ idx = 0 /\ call_count = 0 /\ error_count = 0 /\ StatsIdle
    /\ exit_code = NoTime /\ fetched = {} /\ health = NoHealth

\* The environment: the clock, the remote API's content, the signals.
Tick ==
    /\ pc # "exit" /\ now < MaxTime
    /\ now' = now + 1
    /\ UNCHANGED <<storeVars, config, remote, files, orchVars, monitorVars, health>>

\* The remote API's content is read by fetch_calls alone, so a change of it
\* is placed right before a fetch or right before the end of a cycle: a change
\* at any other moment is the same as one of these.
ApiMoment == pc \in {"poll", "finish"}

\* The calls the remote API may come to serve: A1 carries audio, A2 may.
Publishable ==
    {c \in [id : CallIds, ts : 1..MaxTime, tg : {"55"}, url : Urls \cup {NoUrl}] :
        c.id = "A1" => c.url # NoUrl}

\* A call is published. Its timestamp is the time of the transmission, which
\* is at or before the time of its publication.
ApiPublish ==
    /\ ApiMoment
    /\ \E c \in Publishable :
        /\ c.ts <= now
        /\ \A d \in remote : d.id # c.id
        /\ remote' = remote \cup {c}
    /\ UNCHANGED <<storeVars, now, config, files, orchVars, monitorVars, health>>

\* The remote API revises a field of a call it already serves.
ApiRevise ==
    /\ ApiMoment
    /\ \E c \in remote :
        /\ c.tg = "55" /\ c.id = "A1"
        /\ remote' = (remote \ {c}) \cup {[c EXCEPT !.tg = "56"]}
    /\ UNCHANGED <<storeVars, now, config, files, orchVars, monitorVars, health>>

\* _signal_handler: SIGINT or SIGTERM.
Signal ==
    /\ pc \notin {"init", "exit"} /\ ~shutdown_event
    /\ shutdown_event' = TRUE
    /\ UNCHANGED <<storeVars, envVars, files, pc, running, last_poll_time,
                   call_records, inserted_count, idx, exit_code,
                   fetched, monitorVars, health>>

\* RdioScannerMonitor.__init__: DatabaseManager opens the pool and runs
\* _initialize_schema, whose `with self.get_connection() as conn` commits
\* but never hands the connection back. A store that cannot be reached
\* raises, and main() exits with 1.
Construct ==
    /\ pc = "init"
    /\ \E db_ok \in BOOLEAN :
        IF db_ok
        THEN /\ pool_out' = pool_out + 1
             /\ pc' = "stopped"
             /\ UNCHANGED exit_code
        ELSE /\ pc' = "exit"
             /\ exit_code' = 1
             /\ UNCHANGED pool_out
    /\ UNCHANGED <<calls, pool_closed, last_op, envVars, files, running,
                   shutdown_event, last_poll_time, call_records,
                   inserted_count, idx, fetched, monitorVars,
                   health>>

\* run() is entered.
Run ==
    /\ pc = "stopped"
    /\ pc' = "starting"
    /\ UNCHANGED <<storeVars, envVars, files, running, shutdown_event,
                   last_poll_time, call_records, inserted_count, idx,
                   exit_code, fetched, monitorVars, health>>

\* run(): scanner_client.test_connection() answers True or False.
TestConnection ==
    /\ pc = "starting"
    /\ \E ok \in BOOLEAN : pc' = IF ok THEN "test_ok" ELSE "test_failed"
    /\ UNCHANGED <<storeVars, envVars, files, running, shutdown_event,
                   last_poll_time, call_records, inserted_count, idx,
                   exit_code, fetched, monitorVars, health>>

\* A run() that goes on into the main loop after a failed test_connection.
StartFailGoesOn ==
    /\ pc = "test_failed"
    /\ running' = TRUE
    /\ pc' = "loop"
    /\ UNCHANGED <<storeVars, envVars, files, shutdown_event, last_poll_time,
                   call_records, inserted_count, idx, exit_code,
                   fetched, monitorVars, health>>

\* run(): test_connection has failed and run returns False before its try
\* statement, so _shutdown is not called; main exits with status 1.
StartFail ==
    /\ pc = "test_failed"
    /\ pc' = "exit"
    /\ exit_code' = 1
    /\ UNCHANGED <<storeVars, envVars, files, running, shutdown_event,
                   last_poll_time, call_records, inserted_count, idx,
                   fetched, monitorVars, health>>

\* run(): test_connection has succeeded; the tasks are scheduled,
\* self.running is set and the try statement is entered.
StartOk ==
    /\ pc = "test_ok"
    /\ running' = TRUE
    /\ pc' = "loop"
    /\ UNCHANGED <<storeVars, envVars, files, shutdown_event, last_poll_time,
                   call_records, inserted_count, idx, exit_code,
                   fetched, monitorVars, health>>

\* A while condition that does not look at the shutdown flag.
LoopConditionIgnoresFlag(run, flag) == run

\* run(): while self.running and not self.shutdown_event.is_set().
LoopCondition(run, flag) == run /\ ~flag

\* run(): the while condition is evaluated; poll_and_process_calls is
\* called when it holds, the finally clause is entered when it does not.
LoopCheck ==
    /\ pc = "loop"
    /\ pc' = IF LoopCondition(running, shutdown_event)
             THEN "poll" ELSE "shutdown"
    /\ UNCHANGED <<storeVars, envVars, files, running, shutdown_event,
                   last_poll_time, call_records, inserted_count, idx,
                   exit_code, fetched, monitorVars, health>>

\* The calls the API returns for ?since=: fetch_calls sends the whole
\* second of last_poll_time, int(since.timestamp()), so a call stamped in
\* the tick of the last poll is inside the window again.
Matching(since) == {c \in remote : since = NoTime \/ c.ts >= since}

Min(a, b) == IF a < b THEN a ELSE b

\* The lists the API can answer with: limit of the matching calls, in any
\* order.
Answers(since, limit) ==
    LET m == Matching(since)
        n == Min(limit, Cardinality(m))
    IN {q \in [1..n -> m] : \A i, j \in 1..n : i # j => q[i] # q[j]}

\* The first record at or after position i that carries an audio_url.
NextAudio(recs, i) ==
    LET with == {j \in i..Len(recs) : recs[j].audio_url # NoUrl}
    IN IF with = {} THEN Len(recs) + 1
       ELSE CHOOSE j \in with : \A k \in with : j <= k

\* An audio loop that a failed record breaks off: the failure escapes
\* _process_call_audio and the rest of the batch is skipped.
AfterRecordAborts(recs, i, stage) ==
    IF stage # "done" THEN Len(recs) + 1 ELSE NextAudio(recs, i + 1)

\* The record the audio loop turns to after record i, whose processing
\* ended at stage: _process_call_audio returns normally from every stage
\* (its except clause catches what is raised), so the for loop goes on.
AfterRecord(recs, i, stage) == NextAudio(recs, i + 1)

\* Where the audio loop goes once it stands at record i.
AudioPc(recs, i) == IF i > Len(recs) THEN "finish" ELSE "audio"

\* poll_and_process_calls, to the end of the parse loop: fetch_calls (which
\* answers [] on any failure) and parse_call_record on each raw call. The
\* function returns when nothing was fetched or nothing parsed.
PollFetch ==
    /\ pc = "poll"
    /\ \E net_ok \in BOOLEAN :
        \E q \in (IF net_ok
                  THEN Answers(last_poll_time, config.max_calls_per_request)
                  ELSE {<<>>}) :
            /\ fetched' = fetched \cup {q[i].id : i \in 1..Len(q)}
            /\ IF ParsedBatch([i \in 1..Len(q) |-> RawOf(q[i])], "uuid",
                              now) = <<>>
               THEN /\ pc' = "sched"
                    /\ call_records' = <<>>
               ELSE /\ call_records' =
                         ParsedBatch([i \in 1..Len(q) |-> RawOf(q[i])],
                                     "uuid", now)
                    /\ pc' = "upsert"
    /\ UNCHANGED <<storeVars, envVars, files, running, shutdown_event,
                   last_poll_time, inserted_count, idx, exit_code, monitorVars, health>>

\* poll_and_process_calls: the batch insert; its result is only logged.
PollUpsert ==
    /\ pc = "upsert"
    /\ \E fault \in 0..Len(call_records) :
        LET res == InsertCallRecordsBatch(calls, call_records, now, pool_out,
                                          fault)
        IN /\ calls' = res.table
           /\ inserted_count' = res.ret
    /\ idx' = NextAudio(call_records, 1)
    /\ pc' = AudioPc(call_records, NextAudio(call_records, 1))
    /\ UNCHANGED <<pool_out, pool_closed, last_op, envVars, files, running,
                   shutdown_event, last_poll_time, call_records, exit_code, fetched, monitorVars, health>>

\* A poll cycle that lets the exception through: it leaves run()'s loop
\* for the finally clause.
PollAbortEscapes ==
    /\ pc = "upsert" /\ error_count < MaxErrors
    /\ error_count' = error_count + 1
    /\ pc' = "shutdown"
    /\ call_records' = <<>> /\ inserted_count' = 0 /\ idx' = 0
    /\ UNCHANGED <<storeVars, envVars, files, running, shutdown_event,
                   last_poll_time, exit_code, fetched, call_count, statsVars, health>>

\* A cycle that moved last_poll_time in its except clause would skip the
\* calls of the cycle it broke off.
PollAbortAdvances ==
    /\ pc = "upsert" /\ error_count < MaxErrors
    /\ error_count' = error_count + 1
    /\ pc' = "sched"
    /\ last_poll_time' = now
    /\ call_records' = <<>> /\ inserted_count' = 0 /\ idx' = 0
    /\ UNCHANGED <<storeVars, envVars, files, running, shutdown_event,
                   exit_code, fetched, call_count, statsVars, health>>

\* poll_and_process_calls, the except clause of its try statement: what is
\* raised in the cycle and caught nowhere below (insert_call_records_batch
\* catches psycopg2.Error alone; anything else raised while the batch is
\* prepared and written comes up here, the connection given back by the
\* finally clause and nothing committed) is logged, record_error counts it
\* and the function returns.
PollAbort ==
    /\ pc = "upsert" /\ error_count < MaxErrors
    /\ error_count' = error_count + 1
    /\ pc' = "sched"
    /\ call_records' = <<>> /\ inserted_count' = 0 /\ idx' = 0
    /\ UNCHANGED <<storeVars, envVars, files, running, shutdown_event,
                   last_poll_time, exit_code, fetched, call_count, statsVars, health>>

\* The audio server's responses the poll cycle is run against: an HTTP
\* error, a declared length over the limit, a body over the limit with no
\* or a lying header, a broken transfer, a good transfer.
MainResponses ==
    {r \in Responses :
        \/ r.status = "error" /\ r.declared = NoLength /\ r.actual = 1
           /\ r.breaks = NoLength
        \/ r.status = "ok" /\ r.declared = MaxBytes /\ r.actual = MaxBytes
           /\ r.breaks = NoLength
        \/ r.status = "ok" /\ r.declared \in {NoLength, 1} /\ r.actual = MaxBytes
           /\ r.breaks = NoLength
        \/ r.status = "ok" /\ r.declared = 1 /\ r.actual = 1
           /\ r.breaks \in {NoLength, 0}}

\* _process_call_audio with every transcoded file marked, whatever
\* process_audio returned.
ProcessCallAudioNoCheck(table, fs, rec, t, cfg, out, resp, peak_zero, tfault, mfault) ==
    LET d == DownloadAudio(fs, rec.audio_url, rec.call_id, t, cfg.audio_format,
                           cfg.max_file_size, resp)
        p == ProcessAudio(d.files, d.path, t, cfg.audio_format,
                          cfg.normalize_audio, peak_zero, tfault)
        m == MarkCallProcessed(table, rec.call_id, out, mfault)
    IN IF d.path = NoFile
       THEN [table |-> table, files |-> d.files, rec |-> rec,
             stage |-> "download"]
       ELSE [table |-> m.table, files |-> p.files,
             rec |-> [rec EXCEPT !.audio_file_path = p.path,
                                 !.processed = TRUE],
             stage |-> IF m.ret = 0 THEN "mark" ELSE "done"]

\* _process_call_audio with mark_call_processed called on every path, a
\* failed download included.
ProcessCallAudioMarksRefused(table, fs, rec, t, cfg, out, resp, peak_zero, tfault, mfault) ==
    LET d == DownloadAudio(fs, rec.audio_url, rec.call_id, t, cfg.audio_format,
                           cfg.max_file_size, resp)
        p == ProcessAudio(d.files, d.path, t, cfg.audio_format,
                          cfg.normalize_audio, peak_zero, tfault)
        m == MarkCallProcessed(table, rec.call_id, out, mfault)
    IN IF d.path = NoFile
       THEN [table |-> m.table, files |-> d.files, rec |-> rec,
             stage |-> "download"]
       ELSE IF p.path = NoFile
       THEN [table |-> m.table, files |-> p.files, rec |-> rec,
             stage |-> "transcode"]
       ELSE [table |-> m.table, files |-> p.files,
             rec |-> [rec EXCEPT !.audio_file_path = p.path,
                                 !.processed = TRUE],
             stage |-> IF m.ret = 0 THEN "mark" ELSE "done"]

\* _process_call_audio(call_record): download_audio, then process_audio,
\* then the in-memory record is updated and mark_call_processed is called
\* (its result is dropped). None from either of the first two ends the
\* processing; every exception is caught and logged. stage is the step the
\* processing ended at: the one that failed, or "done".
ProcessCallAudio(table, fs, rec, t, cfg, out, resp, peak_zero, tfault, mfault) ==
    LET d == DownloadAudio(fs, rec.audio_url, rec.call_id, t, cfg.audio_format,
                           cfg.max_file_size, resp)
        p == ProcessAudio(d.files, d.path, t, cfg.audio_format,
                          cfg.normalize_audio, peak_zero, tfault)
        m == MarkCallProcessed(table, rec.call_id, out, mfault)
    IN IF d.path = NoFile
       THEN [table |-> table, files |-> d.files, rec |-> rec,
             stage |-> "download"]
       ELSE IF p.path = NoFile
       THEN [table |-> table, files |-> p.files, rec |-> rec,
             stage |-> "transcode"]
       ELSE [table |-> m.table, files |-> p.files,
             rec |-> [rec EXCEPT !.audio_file_path = p.path,
                                 !.processed = TRUE],
             stage |-> IF m.ret = 0 THEN "mark" ELSE "done"]

\* poll_and_process_calls, one turn of the audio loop: the record at idx
\* carries an audio_url and goes through _process_call_audio. last_op.arg
\* lists, for the cycle under way, the call_id of each record processed,
\* the branch its download returned through and the stage it ended at.
ProcessAudioOfRecord ==
    /\ pc = "audio"
    /\ \E resp \in MainResponses :
        LET rec == call_records[idx]
            d == DownloadAudio(files, rec.audio_url, rec.call_id, now,
                               config.audio_format, config.max_file_size, resp)
        IN \E peak_zero \in (IF d.path # NoFile /\ config.normalize_audio
                             THEN BOOLEAN ELSE {FALSE}),
              tfault \in (IF d.path # NoFile THEN TranscodeFaults ELSE {"none"}) :
            LET p == ProcessAudio(d.files, d.path, now, config.audio_format,
                                  config.normalize_audio, peak_zero, tfault)
            IN \E mfault \in (IF d.path # NoFile /\ p.path # NoFile
                              THEN BOOLEAN ELSE {FALSE}) :
                LET res == ProcessCallAudio(calls, files, rec, now, config,
                                            pool_out, resp, peak_zero, tfault,
                                            mfault)
                IN /\ calls' = res.table
                   /\ files' = res.files
                   /\ call_records' = [call_records EXCEPT ![idx] = res.rec]
                   /\ last_op' =
                        [name |-> "_process_call_audio",
                         arg |-> Append(last_op.arg,
                                        <<rec.call_id,
                                          DownloadOutcome(rec.audio_url,
                                              config.max_file_size, resp),
                                          res.stage>>),
                         id |-> rec.call_id,
                         ret |-> IF res.stage = "done" THEN 1 ELSE 0]
                   /\ idx' = AfterRecord(call_records, idx, res.stage)
                   /\ pc' = AudioPc(call_records,
                                    AfterRecord(call_records, idx, res.stage))
    /\ UNCHANGED <<pool_out, pool_closed, envVars, running,
                   shutdown_event, last_poll_time, inserted_count,
                   exit_code, fetched, monitorVars, health>>

\* A poll cycle that ends with the retention clean-up.
PollFinishPrunes ==
    /\ pc = "finish"
    /\ last_poll_time' = now
    /\ call_count' = call_count + 1
    /\ processing_times' = Trim(Append(processing_times, CycleDuration))
    /\ recorded' = Append(recorded, CycleDuration)
    /\ pc' = "sched"
    /\ call_records' = <<>> /\ inserted_count' = 0 /\ idx' = 0
    /\ last_op' = NoOp
    /\ calls' = CleanupOldRecords(calls, config.retention_days, now,
                                  pool_out, FALSE).table
    /\ files' = CleanupOldFiles(files, config.retention_days, now)
    /\ UNCHANGED <<pool_out, pool_closed, envVars, running,
                   shutdown_event, exit_code, fetched, error_count, lock,
                   workers, health>>

\* poll_and_process_calls: last_poll_time = now, record_call_processed; the
\* function returns and its locals are gone.
PollFinish ==
    /\ pc = "finish"
    /\ last_poll_time' = now
    /\ call_count' = call_count + 1
    /\ processing_times' = Trim(Append(processing_times, CycleDuration))
    /\ recorded' = Append(recorded, CycleDuration)
    /\ pc' = "sched"
    /\ call_records' = <<>> /\ inserted_count' = 0 /\ idx' = 0
    /\ last_op' = NoOp
    /\ UNCHANGED <<calls, pool_out, pool_closed, envVars, files, running,
                   shutdown_event, exit_code, fetched, error_count, lock,
                   workers, health>>

\* perform_health_check, the database probe: what SELECT 1 does once a
\* connection is checked out.
DbOutcomes == {"row", "no_row", "raises"}

\* The status of the database component, whether the probe raised, and the
\* pool's checkouts afterwards. return_connection is not in a finally
\* clause: a query that raises leaves the connection checked out.
DbProbe(out, outcome) ==
    IF ~PoolAvailable(out)
    THEN [status |-> "unhealthy", raised |-> TRUE, out |-> out]
    ELSE IF outcome = "raises"
    THEN [status |-> "unhealthy", raised |-> TRUE, out |-> out + 1]
    ELSE [status |-> IF outcome = "row" THEN "healthy" ELSE "unhealthy",
          raised |-> FALSE, out |-> out]

\* schedule.run_pending(), the hourly job: run_maintenance_tasks is called
\* when it is due. run_pending runs its jobs in the thread that calls it.
RunPendingMaintenance ==
    /\ pc = "sched"
    /\ \E due \in BOOLEAN : pc' = IF due THEN "maintenance" ELSE "sched_health"
    /\ UNCHANGED <<storeVars, envVars, files, running, shutdown_event,
                   last_poll_time, call_records, inserted_count, idx,
                   exit_code, fetched, monitorVars, health>>

\* run_maintenance_tasks: cleanup_old_records and cleanup_old_files, each
\* when retention_days > 0.
RunMaintenanceTasks ==
    /\ pc = "maintenance"
    /\ \E fault \in BOOLEAN :
        IF config.retention_days > 0
        THEN /\ calls' = CleanupOldRecords(calls, config.retention_days, now,
                                           pool_out, fault).table
             /\ files' = CleanupOldFiles(files, config.retention_days, now)
        ELSE UNCHANGED <<calls, files>>
    /\ pc' = "sched_health"
    /\ UNCHANGED <<pool_out, pool_closed, last_op, envVars, running,
                   shutdown_event, last_poll_time, call_records,
                   inserted_count, idx, exit_code, fetched,
                   monitorVars, health>>

\* schedule.run_pending(), the health-check job: perform_health_check is
\* called when it is due.
RunPendingHealth ==
    /\ pc = "sched_health"
    /\ \E due \in BOOLEAN : pc' = IF due THEN "health" ELSE "wait"
    /\ UNCHANGED <<storeVars, envVars, files, running, shutdown_event,
                   last_poll_time, call_records, inserted_count, idx,
                   exit_code, fetched, monitorVars, health>>

\* perform_health_check, run from the schedule. Its result is dropped by
\* the lambda that schedules it.
PerformHealthCheck ==
    /\ pc = "health"
    /\ \E outcome \in DbOutcomes :
        pool_out' = DbProbe(pool_out, outcome).out
    /\ pc' = "wait"
    /\ UNCHANGED <<calls, pool_closed, last_op, envVars, files, running,
                   shutdown_event, last_poll_time, call_records,
                   inserted_count, idx, exit_code, fetched,
                   monitorVars, health>>

\* shutdown_event.wait(timeout=poll_interval) times out and returns False:
\* the while condition is evaluated again.
WaitTimeout ==
    /\ pc = "wait" /\ ~shutdown_event
    /\ call_count + error_count < MaxCycles
    /\ pc' = "loop"
    /\ UNCHANGED <<storeVars, envVars, files, running, shutdown_event,
                   last_poll_time, call_records, inserted_count, idx,
                   exit_code, fetched, monitorVars, health>>

\* shutdown_event.wait returns True: break, and the finally clause is
\* entered.
WaitShutdown ==
    /\ pc = "wait" /\ shutdown_event
    /\ pc' = "shutdown"
    /\ UNCHANGED <<storeVars, envVars, files, running, shutdown_event,
                   last_poll_time, call_records, inserted_count, idx,
                   exit_code, fetched, monitorVars, health>>

\* A _shutdown that leaves the connection pool open.
ShutdownLeavesPool ==
    /\ pc = "shutdown"
    /\ running' = FALSE
    /\ pc' = "exit"
    /\ exit_code' = 0
    /\ UNCHANGED <<storeVars, envVars, files, shutdown_event,
                   last_poll_time, call_records, inserted_count, idx,
                   fetched, monitorVars, health>>

\* _shutdown: the pool is closed; run returns True and main exits with 0.
Shutdown ==
    /\ pc = "shutdown"
    /\ running' = FALSE
    /\ pool_closed' = TRUE
    /\ pc' = "exit"
    /\ exit_code' = 0
    /\ UNCHANGED <<calls, pool_out, last_op, envVars, files, shutdown_event,
                   last_poll_time, call_records, inserted_count, idx,
                   fetched, monitorVars, health>>

Next ==
    \/ Tick
    \/ ApiPublish
    \/ ApiRevise
    \/ Signal
    \/ Construct
    \/ Run
    \/ TestConnection
    \/ StartFail
    \/ StartOk
    \/ LoopCheck
    \/ PollFetch
    \/ PollUpsert
    \/ PollAbort
    \/ ProcessAudioOfRecord
    \/ PollFinish
    \/ RunPendingMaintenance
    \/ RunMaintenanceTasks
    \/ RunPendingHealth
    \/ PerformHealthCheck
    \/ WaitTimeout
    \/ WaitShutdown
    \/ Shutdown

Spec == Init /\ [][Next]_vars

\* The steps of the main thread. The interpreter runs the thread on: a
\* statement that can be executed is executed, every call of a poll cycle
\* returns, and a wait on a set event returns.
MainThread ==
    \/ Construct
    \/ Run
    \/ TestConnection
    \/ StartFail
    \/ StartOk
    \/ LoopCheck
    \/ PollFetch
    \/ PollUpsert
    \/ PollAbort
    \/ ProcessAudioOfRecord
    \/ PollFinish
    \/ RunPendingMaintenance
    \/ RunMaintenanceTasks
    \/ RunPendingHealth
    \/ PerformHealthCheck
    \/ WaitTimeout
    \/ WaitShutdown
    \/ Shutdown

\* The orchestrator with a main thread that keeps running, fetching one
\* call per request.
LiveInit == Init /\ config.max_calls_per_request = 1

SpecLive == LiveInit /\ [][Next]_vars /\ WF_vars(MainThread)

\* =================================================================
\* The store driven directly through DatabaseManager's interface.
\* =================================================================
Batches == UNION {[1..n -> RecordSet] : n \in 0..MaxBatch}
RetentionChoices == 0..(MaxTime - 1)

StoreConfig ==
    [max_calls_per_request |-> MaxBatch, retention_days |-> 1,
     normalize_audio |-> FALSE, audio_format |-> "mp3", max_file_size |-> 1]

\* Everything but the store stands still.
StoreFrame ==
    UNCHANGED <<pool_out, pool_closed, config, remote, files, orchVars,
                monitorVars, health>>

StoreInit ==
    /\ calls = {}
    /\ pool_out = 1     \* the checkout _initialize_schema never returns
    /\ pool_closed = FALSE /\ last_op = NoOp
    /\ now = 1 /\ config = StoreConfig /\ remote = {} /\ files = {}
    /\ pc = "stopped" /\ running = FALSE /\ shutdown_event = FALSE
    /\ last_poll_time = NoTime /\ call_records = <<>> /\ inserted_count = 0
    /\ idx = 0 /\ call_count = 0 /\ error_count = 0 /\ StatsIdle
    /\ exit_code = NoTime /\ fetched = {} /\ health = NoHealth

StoreInsertOne ==
    \E rec \in RecordSet, fault \in BOOLEAN :
        LET res == InsertCallRecord(calls, rec, now, pool_out, fault) IN
        /\ calls' = res.table
        /\ last_op' = [name |-> "insert_call_record", arg |-> <<rec>>,
                        id |-> rec.call_id, ret |-> res.ret]
        /\ now' = now /\ StoreFrame

StoreInsertBatch ==
    \E recs \in Batches :
      \E fault \in 0..Len(recs) :
        LET res == InsertCallRecordsBatch(calls, recs, now, pool_out, fault) IN
        /\ calls' = res.table
        /\ last_op' = [name |-> "insert_call_records_batch", arg |-> recs,
                        id |-> "", ret |-> res.ret]
        /\ now' = now /\ StoreFrame

StoreMark ==
    \E id \in CallIds, fault \in BOOLEAN :
        LET res == MarkCallProcessed(calls, id, pool_out, fault) IN
        /\ calls' = res.table
        /\ last_op' = [name |-> "mark_call_processed", arg |-> <<>>,
                        id |-> id, ret |-> res.ret]
        /\ now' = now /\ StoreFrame

StoreCleanup ==
    \E days \in RetentionChoices, fault \in BOOLEAN :
        LET res == CleanupOldRecords(calls, days, now, pool_out, fault) IN
        /\ calls' = res.table
        /\ last_op' = [name |-> "cleanup_old_records", arg |-> <<>>,
                        id |-> "", ret |-> res.ret]
        /\ now' = now /\ StoreFrame

StoreTick ==
    /\ now < MaxTime
    /\ now' = now + 1
    /\ UNCHANGED <<calls, last_op>> /\ StoreFrame

StoreNext ==
    \/ StoreInsertOne
    \/ StoreInsertBatch
    \/ StoreMark
    \/ StoreCleanup
    \/ StoreTick

SpecStore == StoreInit /\ [][StoreNext]_vars

\* -----------------------------------------------------------------
\* perform_health_check, statement by statement.
\* -----------------------------------------------------------------
\* What check_disk_space and get_memory_usage can answer: usage under the
\* threshold, usage over it (alert), or a dictionary that carries only an
\* error.
Usages == {"ok", "alert", "error"}

\* health_status as perform_health_check builds it first.
StartHealth(t) ==
    [timestamp |-> t, db |-> "", api |-> "", disk |-> "", memory |-> "",
     overall |-> "healthy"]

\* The database block: overall_status is set only in the except clause.
AfterDatabase(h, probe) ==
    [h EXCEPT !.db = probe.status,
              !.overall = IF probe.raised THEN "unhealthy" ELSE @]

AfterApi(h, api_healthy) ==
    [h EXCEPT !.api = IF api_healthy THEN "healthy" ELSE "unhealthy",
              !.overall = IF ~api_healthy THEN "unhealthy" ELSE @]

\* disk_info.get('alert', False): overall_status is assigned 'warning'.
AfterDisk(h, disk) ==
    [h EXCEPT !.disk = disk,
              !.overall = IF disk = "alert" THEN "warning" ELSE @]

AfterMemory(h, memory) ==
    [h EXCEPT !.memory = memory,
              !.overall = IF memory = "alert" THEN "warning" ELSE @]

HealthFrame ==
    UNCHANGED <<calls, pool_closed, last_op, config, remote, files, running,
                shutdown_event, last_poll_time, call_records, inserted_count,
                idx, exit_code, fetched, monitorVars>>

HealthInit ==
    /\ calls = {}
    /\ pool_out = 1     \* the checkout _initialize_schema never returns
    /\ pool_closed = FALSE /\ last_op = NoOp
    /\ now = 1 /\ config = StoreConfig /\ remote = {} /\ files = {}
    /\ pc = "health_db" /\ running = TRUE /\ shutdown_event = FALSE
    /\ last_poll_time = NoTime /\ call_records = <<>> /\ inserted_count = 0
    /\ idx = 0 /\ call_count = 0 /\ error_count = 0 /\ StatsIdle
    /\ exit_code = NoTime /\ fetched = {} /\ health = StartHealth(1)

HealthDatabase ==
    /\ pc = "health_db"
    /\ \E outcome \in DbOutcomes :
        LET probe == DbProbe(pool_out, outcome) IN
        /\ health' = AfterDatabase(health, probe)
        /\ pool_out' = probe.out
    /\ pc' = "health_api"
    /\ now' = now /\ HealthFrame

HealthApi ==
    /\ pc = "health_api"
    /\ \E api_healthy \in BOOLEAN : health' = AfterApi(health, api_healthy)
    /\ pc' = "health_disk"
    /\ UNCHANGED <<pool_out, now>> /\ HealthFrame

HealthDisk ==
    /\ pc = "health_disk"
    /\ \E disk \in Usages : health' = AfterDisk(health, disk)
    /\ pc' = "health_memory"
    /\ UNCHANGED <<pool_out, now>> /\ HealthFrame

HealthMemory ==
    /\ pc = "health_memory"
    /\ \E memory \in Usages : health' = AfterMemory(health, memory)
    /\ pc' = "health_done"
    /\ UNCHANGED <<pool_out, now>> /\ HealthFrame

\* perform_health_check returns; the scheduler starts the next one when it is due.
HealthReturn ==
    /\ pc = "health_done"
    /\ pc' = "health_db"
    /\ health' = StartHealth(now)
    /\ UNCHANGED <<pool_out, now>> /\ HealthFrame

HealthTick ==
    /\ pc = "health_done"
    /\ now < MaxTime
    /\ now' = now + 1
    /\ UNCHANGED <<pool_out, pc, health>> /\ HealthFrame

HealthNext ==
    \/ HealthDatabase \/ HealthApi \/ HealthDisk \/ HealthMemory
    \/ HealthReturn \/ HealthTick

SpecHealth == HealthInit /\ [][HealthNext]_vars

\* -----------------------------------------------------------------
\* The audio pipeline driven directly: download_audio, process_audio and
\* cleanup_old_files on one storage directory.
\* -----------------------------------------------------------------
AudioConfigs ==
    [max_calls_per_request : {1}, retention_days : {1},
     normalize_audio : BOOLEAN, audio_format : Formats,
     max_file_size : 0..1]

\* Files an earlier run left in the directory.
LeftoverFiles ==
    {[call_id |-> "A2", stamp |-> 0, ext |-> e, content |-> "raw",
      mtime |-> 0] : e \in Formats}

\* The responses a download is driven with: one HTTP error, and the good
\* statuses with a break only where the body has not ended yet.
AudioResponses ==
    {r \in Responses :
        \/ r.status = "error" /\ r.declared = NoLength /\ r.actual = 0
           /\ r.breaks = NoLength
        \/ r.status = "ok" /\ (r.breaks = NoLength \/ r.breaks < r.actual)}

\* What a caller sees of a call: its name, the file it names, the URL, how
\* the response compares with the maximum, the branch taken, the result.
NoAudioOp ==
    [name |-> "none", arg |-> NoFile, id |-> "", url |-> NoUrl,
     advertised |-> FALSE, observed |-> 0, outcome |-> "", ret |-> NoFile]

AudioFrame ==
    UNCHANGED <<calls, pool_out, pool_closed, config, remote, orchVars,
                monitorVars, health>>

AudioInit ==
    /\ calls = {} /\ pool_out = 1 /\ pool_closed = FALSE
    /\ last_op = NoAudioOp
    /\ now = 1 /\ config \in AudioConfigs /\ remote = {}
    /\ files \in SUBSET LeftoverFiles
    /\ pc = "stopped" /\ running = FALSE /\ shutdown_event = FALSE
    /\ last_poll_time = NoTime /\ call_records = <<>> /\ inserted_count = 0
    /\ idx = 0 /\ call_count = 0 /\ error_count = 0 /\ StatsIdle
    /\ exit_code = NoTime /\ fetched = {} /\ health = NoHealth

AudioDownload ==
    \E url \in Urls \cup {NoUrl}, resp \in AudioResponses :
        LET res == DownloadAudio(files, url, "A1", now, config.audio_format,
                                 config.max_file_size, resp) IN
        /\ files' = res.files
        /\ last_op' = [name |-> "download_audio",
                       arg |-> <<"A1", now, config.audio_format>>,
                       id |-> "A1", url |-> url,
                       advertised |-> Advertised(resp, config.max_file_size),
                       observed |-> Observed(resp),
                       outcome |-> DownloadOutcome(url, config.max_file_size,
                                                   resp),
                       ret |-> res.path]
        /\ now' = now /\ AudioFrame

\* process_audio is called on a file of the directory. last_op.outcome is
\* what the call met: a fault of the decode or the export, else a decoded
\* file whose peak amplitude is 0 ("silent") or not ("audible").
AudioProcess ==
    \E f \in files, fault \in TranscodeFaults,
       peak_zero \in (IF config.normalize_audio THEN BOOLEAN ELSE {FALSE}) :
        LET res == ProcessAudio(files, FileName(f), now, config.audio_format,
                                config.normalize_audio, peak_zero, fault) IN
        /\ files' = res.files
        /\ last_op' = [NoAudioOp EXCEPT
                           !.name = "process_audio",
                           !.arg = FileName(f),
                           !.id = f.call_id,
                           !.outcome = IF fault # "none" THEN fault
                                       ELSE IF peak_zero THEN "silent"
                                       ELSE "audible",
                           !.ret = res.path]
        /\ now' = now /\ AudioFrame

AudioCleanup ==
    /\ files' = CleanupOldFiles(files, config.retention_days, now)
    /\ last_op' = [NoAudioOp EXCEPT !.name = "cleanup_old_files"]
    /\ now' = now /\ AudioFrame

AudioTick ==
    /\ now < MaxTime
    /\ now' = now + 1
    /\ UNCHANGED <<files, last_op>> /\ AudioFrame

AudioNext == AudioDownload \/ AudioProcess \/ AudioCleanup \/ AudioTick

SpecAudio == AudioInit /\ [][AudioNext]_vars


\* =================================================================
\* The retention clean-up of run_maintenance_tasks, run over a table and a
\* directory that hold rows and files of earlier days.
\* =================================================================
MaxAge == 2        \* days before the clock's start that old rows and files go back

OldTimes == (1 - MaxAge)..0

\* Tables of rows written on earlier days, one row per call_id at most.
OldTables ==
    {{RowOf(CallRecord(id, c[id], "55", NoUrl), c[id]) :
        id \in {i \in CallIds : c[i] <= 0}} :
     c \in [CallIds -> OldTimes \cup {1}]}

\* Files written on earlier days.
OldFiles ==
    {[call_id |-> "A2", stamp |-> m, ext |-> "mp3", content |-> "processed",
      mtime |-> m] : m \in OldTimes}

RetentionConfigs ==
    [max_calls_per_request : {1}, retention_days : (0 - 1)..MaxAge,
     normalize_audio : {FALSE}, audio_format : {"mp3"}, max_file_size : {1}]

RetentionFrame ==
    UNCHANGED <<pool_out, pool_closed, config, remote, orchVars,
                monitorVars, health>>

RetentionInit ==
    /\ calls \in OldTables /\ files \in SUBSET OldFiles
    /\ pool_out = 1 /\ pool_closed = FALSE /\ last_op = NoOp
    /\ now = 1 /\ config \in RetentionConfigs /\ remote = {}
    /\ pc = "stopped" /\ running = FALSE /\ shutdown_event = FALSE
    /\ last_poll_time = NoTime /\ call_records = <<>> /\ inserted_count = 0
    /\ idx = 0 /\ call_count = 0 /\ error_count = 0 /\ StatsIdle
    /\ exit_code = NoTime /\ fetched = {} /\ health = NoHealth

\* The files cleanup_old_files is to delete.
Expired(fs, days, t) == fs \ CleanupOldFiles(fs, days, t)

\* run_maintenance_tasks: with retention_days > 0, cleanup_old_records (0
\* and nothing deleted when the store fails) and then cleanup_old_files,
\* whose loop an exception ends with some of the old files still there.
\* last_op.arg tells which of the two ran to its end.
RetentionRun ==
    /\ \E fault \in BOOLEAN,
          kept \in SUBSET Expired(files, config.retention_days, now) :
        LET res == CleanupOldRecords(calls, config.retention_days, now,
                                     pool_out, fault)
        IN IF config.retention_days > 0
           THEN /\ calls' = res.table
                /\ files' = CleanupOldFiles(files, config.retention_days, now)
                               \cup kept
                /\ last_op' = [name |-> "run_maintenance_tasks",
                               arg |-> <<IF fault THEN "failed" ELSE "done",
                                         IF kept # {} THEN "failed"
                                         ELSE "done">>,
                               id |-> "", ret |-> res.ret]
           ELSE /\ UNCHANGED <<calls, files>>
                /\ last_op' = [name |-> "run_maintenance_tasks",
                               arg |-> <<"skipped", "skipped">>,
                               id |-> "", ret |-> 0]
    /\ now' = now /\ RetentionFrame

\* cleanup_old_files called by itself: the files it deleted are counted,
\* also when an exception ends the loop early.
RetentionSweep ==
    /\ \E kept \in SUBSET Expired(files, config.retention_days, now) :
        /\ files' = CleanupOldFiles(files, config.retention_days, now)
                        \cup kept
        /\ last_op' = [name |-> "cleanup_old_files",
                       arg |-> <<"skipped",
                                 IF kept # {} THEN "failed" ELSE "done">>,
                       id |-> "",
                       ret |-> Cardinality(files) - Cardinality(files')]
    /\ UNCHANGED <<calls, now>> /\ RetentionFrame

\* A row is written today.
RetentionInsert ==
    /\ \E rec \in {r \in RecordSet : ~r.processed} :
        calls' = InsertCallRecord(calls, rec, now, pool_out, FALSE).table
    /\ last_op' = NoOp
    /\ UNCHANGED <<files, now>> /\ RetentionFrame

\* A file is written today.
RetentionWrite ==
    /\ files' = WriteFile(files, <<"A1", now, "mp3">>, "processed", now)
    /\ last_op' = NoOp
    /\ UNCHANGED <<calls, now>> /\ RetentionFrame

RetentionTick ==
    /\ now < MaxTime
    /\ now' = now + 1
    /\ last_op' = NoOp
    /\ UNCHANGED <<calls, files>> /\ RetentionFrame

RetentionNext ==
    \/ RetentionRun
    \/ RetentionSweep
    \/ RetentionInsert
    \/ RetentionWrite
    \/ RetentionTick

SpecRetention == RetentionInit /\ [][RetentionNext]_vars


\* =================================================================
\* The orchestrator started over a table and a directory that an earlier
\* run has left a row and a file in, both past the retention time.
\* =================================================================
DurableInit ==
    /\ calls = {RowOf(CallRecord("A2", 1 - MaxAge, "55", NoUrl), 1 - MaxAge)}
    /\ files = {f \in OldFiles : f.mtime = 1 - MaxAge}
    /\ pool_out = 0 /\ pool_closed = FALSE /\ last_op = NoOp
    /\ now = 1 /\ config \in MainConfigs /\ config.max_calls_per_request = 1
    /\ remote = {}
    /\ pc = "init" /\ running = FALSE /\ shutdown_event = FALSE
    /\ last_poll_time = NoTime /\ call_records = <<>> /\ inserted_count = 0
    /\ idx = 0 /\ call_count = 0 /\ error_count = 0 /\ StatsIdle
    /\ exit_code = NoTime /\ fetched = {} /\ health = NoHealth

SpecDurable == DurableInit /\ [][Next]_vars


\* =================================================================
\* The client's two functions, and the parse loop and batch upsert of the
\* poll cycle, driven directly.
\* =================================================================
MaxUuids == 2      \* values uuid.uuid4() hands out

Uuids == {"u" \o ToString(i) : i \in 1..MaxUuids}

\* A raw call with every field; one with no id and no call_id; one whose
\* frequency float() cannot coerce; one that is a string, not a dict.
RawWhole(id) == RawOf([id |-> id, ts |-> 1, tg |-> "55", url |-> NoUrl])
RawNoId == [x \in {"timestamp", "talkgroup"} |->
               IF x = "timestamp" THEN Num(1) ELSE Str("55")]
RawBadFrequency ==
    [x \in {"id", "frequency"} |->
        IF x = "id" THEN Str("A2") ELSE Str("abc")]
RawNoDict == Str("A2")

ClientRaws == {RawWhole("A1"), RawNoId, RawBadFrequency, RawNoDict}

\* The raw batches the API delivers: calls it serves, no call twice.
RawBatches ==
    UNION {{q \in [1..n -> ClientRaws] :
               \A i, j \in 1..n : i # j => q[i] # q[j]} : n \in 1..MaxBatch}

ClientFrame ==
    UNCHANGED <<pool_out, pool_closed, now, config, files, pc, running,
                shutdown_event, last_poll_time, idx, exit_code, fetched,
                monitorVars, health>>

ClientInit ==
    /\ calls = {} /\ pool_out = 1 /\ pool_closed = FALSE /\ last_op = NoOp
    /\ now = 1 /\ config = StoreConfig /\ remote = {} /\ files = {}
    /\ pc = "stopped" /\ running = FALSE /\ shutdown_event = FALSE
    /\ last_poll_time = NoTime /\ call_records = <<>> /\ inserted_count = 0
    /\ idx = 0 /\ call_count = 0 /\ error_count = 0 /\ StatsIdle
    /\ exit_code = NoTime /\ fetched = {} /\ health = NoHealth

\* fetch_calls is called; last_op holds the response it met, the exception
\* that left it and the value it returned.
ClientFetch ==
    /\ \E resp \in ApiResponses :
        last_op' = [name |-> "fetch_calls", arg |-> <<resp>>,
                    id |-> FetchCalls(resp).raised,
                    ret |-> FetchCalls(resp).ret]
    /\ UNCHANGED <<calls, remote, call_records, inserted_count>>
    /\ ClientFrame

\* The parse loop and the batch upsert of one poll cycle over a delivered
\* batch; remote keeps the raw calls delivered so far. uuid is the value
\* uuid4 returns in this cycle, one that no row carries.
ClientIngest ==
    /\ \E raws \in RawBatches, uuid \in Uuids \ {r.call_id : r \in calls},
          fault \in BOOLEAN :
        LET recs == ParsedBatch(raws, uuid, now)
            res == InsertCallRecordsBatch(calls, recs, now, pool_out,
                                          IF fault THEN 1 ELSE 0)
        IN /\ call_records' = recs
           /\ calls' = res.table
           /\ inserted_count' = res.ret
           /\ remote' = remote \cup {raws[i] : i \in 1..Len(raws)}
           /\ last_op' = [name |-> "poll_and_process_calls", arg |-> raws,
                          id |-> "", ret |-> res.ret]
    /\ ClientFrame

ClientNext ==
    \/ ClientFetch
    \/ ClientIngest

SpecClient == ClientInit /\ [][ClientNext]_vars

\* ------------------------------------------------- SystemMonitor, two callers
\* record_call_processed, record_error and get_system_stats called from two
\* threads. Each statement of a method body is a step; self.call_count += 1
\* loads the counter and stores it in two steps.
MaxDuration == 2   \* the durations passed to record_call_processed
Durations == 1..MaxDuration
MaxSamples == WindowSize + 1

Methods == {"record_call_processed", "record_error", "get_system_stats"}

\* A lock that lets every caller in.
CanAcquireAlways(l) == TRUE

\* with self.lock: the caller goes on when no thread holds the lock.
CanAcquire(l) == l = NoThread

FirstStep(op) ==
    IF op = "record_call_processed" THEN "rcp_load"
    ELSE IF op = "record_error" THEN "err_load"
    ELSE "stats_times"

MonitorFrame == UNCHANGED <<storeVars, envVars, files, orchVars, health>>

MonitorInit ==
    /\ calls = {} /\ pool_out = 1 /\ pool_closed = FALSE /\ last_op = NoOp
    /\ now = 1 /\ config = StoreConfig /\ remote = {} /\ files = {}
    /\ pc = "stopped" /\ running = FALSE /\ shutdown_event = FALSE
    /\ last_poll_time = NoTime /\ call_records = <<>> /\ inserted_count = 0
    /\ idx = 0 /\ call_count = 0 /\ error_count = 0 /\ StatsIdle
    /\ exit_code = NoTime /\ fetched = {} /\ health = NoHealth

\* A thread calls a method and comes to its with statement.
MonitorCall(t) ==
    /\ workers[t].pc = "idle"
    /\ \E op \in Methods, d \in Durations :
        /\ op = "record_call_processed" => Len(recorded) < MaxSamples
        /\ op = "record_error" => error_count < MaxErrors
        /\ workers' = [workers EXCEPT
                          ![t].pc = "acquire", ![t].op = op,
                          ![t].snap = NoSnap,
                          ![t].arg = IF op = "record_call_processed"
                                     THEN d ELSE 0]
    /\ UNCHANGED <<call_count, error_count, processing_times, lock, recorded>>
    /\ MonitorFrame

\* with self.lock, entered.
MonitorAcquire(t) ==
    /\ workers[t].pc = "acquire"
    /\ CanAcquire(lock)
    /\ lock' = t
    /\ workers' = [workers EXCEPT ![t].pc = FirstStep(workers[t].op)]
    /\ UNCHANGED <<call_count, error_count, processing_times, recorded>>
    /\ MonitorFrame

\* self.call_count += 1, the load and the store.
MonitorCountLoad(t) ==
    /\ workers[t].pc = "rcp_load"
    /\ workers' = [workers EXCEPT ![t].pc = "rcp_store",
                                  ![t].tmp = call_count]
    /\ UNCHANGED <<call_count, error_count, processing_times, lock, recorded>>
    /\ MonitorFrame

MonitorCountStore(t) ==
    /\ workers[t].pc = "rcp_store"
    /\ call_count' = workers[t].tmp + 1
    /\ workers' = [workers EXCEPT ![t].pc = "rcp_append"]
    /\ UNCHANGED <<error_count, processing_times, lock, recorded>>
    /\ MonitorFrame

\* self.processing_times.append(processing_time)
MonitorAppend(t) ==
    /\ workers[t].pc = "rcp_append"
    /\ processing_times' = Append(processing_times, workers[t].arg)
    /\ recorded' = Append(recorded, workers[t].arg)
    /\ workers' = [workers EXCEPT ![t].pc = "rcp_trim"]
    /\ UNCHANGED <<call_count, error_count, lock>>
    /\ MonitorFrame

\* if len(self.processing_times) > 1000: keep the last 1000.
MonitorTrim(t) ==
    /\ workers[t].pc = "rcp_trim"
    /\ processing_times' = Trim(processing_times)
    /\ workers' = [workers EXCEPT ![t].pc = "release"]
    /\ UNCHANGED <<call_count, error_count, lock, recorded>>
    /\ MonitorFrame

\* self.error_count += 1, the load and the store.
MonitorErrorLoad(t) ==
    /\ workers[t].pc = "err_load"
    /\ workers' = [workers EXCEPT ![t].pc = "err_store",
                                  ![t].tmp = error_count]
    /\ UNCHANGED <<call_count, error_count, processing_times, lock, recorded>>
    /\ MonitorFrame

MonitorErrorStore(t) ==
    /\ workers[t].pc = "err_store"
    /\ error_count' = workers[t].tmp + 1
    /\ workers' = [workers EXCEPT ![t].pc = "release"]
    /\ UNCHANGED <<call_count, processing_times, lock, recorded>>
    /\ MonitorFrame

\* get_system_stats: avg_processing_time is computed from processing_times,
\* then the dict is built from call_count and error_count.
MonitorStatsTimes(t) ==
    /\ workers[t].pc = "stats_times"
    /\ workers' = [workers EXCEPT
                      ![t].pc = "stats_counts",
                      ![t].snap = [NoSnap EXCEPT
                                      !.samples = Len(processing_times)]]
    /\ UNCHANGED <<call_count, error_count, processing_times, lock, recorded>>
    /\ MonitorFrame

MonitorStatsCounts(t) ==
    /\ workers[t].pc = "stats_counts"
    /\ workers' = [workers EXCEPT
                      ![t].pc = "release",
                      ![t].snap = [workers[t].snap EXCEPT
                                      !.calls = call_count,
                                      !.errors = error_count]]
    /\ UNCHANGED <<call_count, error_count, processing_times, lock, recorded>>
    /\ MonitorFrame

\* The with statement is left and the method returns; its locals are gone.
MonitorRelease(t) ==
    /\ workers[t].pc = "release"
    /\ lock' = IF lock = t THEN NoThread ELSE lock
    /\ workers' = [workers EXCEPT
                      ![t].pc = "idle", ![t].op = "none",
                      ![t].arg = 0, ![t].tmp = 0,
                      ![t].calls_done =
                          IF workers[t].op = "record_call_processed"
                          THEN @ + 1 ELSE @,
                      ![t].errors_done =
                          IF workers[t].op = "record_error"
                          THEN @ + 1 ELSE @]
    /\ UNCHANGED <<call_count, error_count, processing_times, recorded>>
    /\ MonitorFrame

MonitorNext ==
    \E t \in Threads :
        \/ MonitorCall(t)
        \/ MonitorAcquire(t)
        \/ MonitorCountLoad(t)
        \/ MonitorCountStore(t)
        \/ MonitorAppend(t)
        \/ MonitorTrim(t)
        \/ MonitorErrorLoad(t)
        \/ MonitorErrorStore(t)
        \/ MonitorStatsTimes(t)
        \/ MonitorStatsCounts(t)
        \/ MonitorRelease(t)

SpecMonitor == MonitorInit /\ [][MonitorNext]_vars

\* ------------------------------------------------- parse_call_record alone
\* The candidate keys of the fields, in the order parse_call_record asks
\* for them.
IdKeys == <<"id", "call_id">>
TimestampKeys == <<"timestamp", "time", "datetime">>
TalkgroupKeys == <<"talkgroup", "tg">>
AudioUrlKeys == <<"audio_url", "audioUrl", "audio", "file">>
FieldKeys == {IdKeys, TimestampKeys, TalkgroupKeys, AudioUrlKeys}

KeySet(keys) == {keys[i] : i \in 1..Len(keys)}

\* The value a key carries: the number i under the i-th candidate key, a
\* string naming the key, or a falsy value (0, the empty string).
ValuesAt(keys, i) ==
    IF keys = TimestampKeys THEN {Num(i), Num(0), Str("")}
    ELSE {Str(keys[i]), Num(0), Str("")}

\* The raw records of one field: any of its candidate keys present, each
\* with one of its values.
RawsOf(keys) ==
    UNION {{raw \in [present -> {Num(0), Str("")}
                                  \cup UNION {ValuesAt(keys, i) :
                                                 i \in 1..Len(keys)}] :
               \A i \in 1..Len(keys) :
                   keys[i] \in present => raw[keys[i]] \in ValuesAt(keys, i)} :
           present \in SUBSET KeySet(keys)}

ParseRaws == UNION {RawsOf(keys) : keys \in FieldKeys}

ParseInit ==
    /\ calls = {} /\ pool_out = 1 /\ pool_closed = FALSE /\ last_op = NoOp
    /\ now = 1 /\ config = StoreConfig /\ remote = {} /\ files = {}
    /\ pc = "stopped" /\ running = FALSE /\ shutdown_event = FALSE
    /\ last_poll_time = NoTime /\ call_records = <<>> /\ inserted_count = 0
    /\ idx = 0 /\ call_count = 0 /\ error_count = 0 /\ StatsIdle
    /\ exit_code = NoTime /\ fetched = {} /\ health = NoHealth

\* parse_call_record is called on a raw record; call_records holds what it
\* returned.
ParseOne ==
    /\ \E raw \in ParseRaws :
        /\ call_records' = <<ParseCallRecordOrNone(raw, "uuid", now)>>
        /\ last_op' = [name |-> "parse_call_record", arg |-> <<raw>>,
                       id |-> "", ret |-> 0]
    /\ UNCHANGED <<calls, pool_out, pool_closed, envVars, files, pc, running,
                   shutdown_event, last_poll_time, inserted_count, idx,
                   exit_code, fetched, monitorVars, health>>

ParseNext == ParseOne

SpecParse == ParseInit /\ [][ParseNext]_vars

\* =================================================================
\* Properties
\* =================================================================
Row(id) == CHOOSE r \in calls : r.call_id = id
HasRow(id) == \E r \in calls : r.call_id = id

\* C1: once the persisted row's processed flag is true it never becomes
\* false while the row exists.
C1_ProcessedNeverReverts ==
    [][\A r \in calls : r.processed =>
          \A q \in calls' : q.call_id = r.call_id => q.processed]_vars

\* The columns of a row are those of the record.
Reflects(r, rec) ==
    /\ r.call_id = rec.call_id /\ r.timestamp = rec.timestamp
    /\ r.talkgroup = rec.talkgroup /\ r.audio_url = rec.audio_url
    /\ r.audio_file_path = rec.audio_file_path /\ r.processed = rec.processed

UniqueCallId == \A r, q \in calls : r.call_id = q.call_id => r = q

IsUpsert(op) ==
    /\ op.name \in {"insert_call_record", "insert_call_records_batch"}
    /\ op.ret > 0

\* C2: the calls table holds at most one row per call_id, and a successful
\* upsert leaves, for each record, a row with the record's values, adding
\* a row only for a call_id the table did not hold.
C2_UpsertIdempotent ==
    /\ []UniqueCallId
    /\ [][(IsUpsert(last_op') /\ now' = now) =>
            /\ \A i \in 1..Len(last_op'.arg) :
                 \E r \in calls' : Reflects(r, last_op'.arg[i])
            /\ Cardinality(calls') = Cardinality(calls) +
                 Cardinality({last_op'.arg[i].call_id :
                                 i \in 1..Len(last_op'.arg)}
                             \ {r.call_id : r \in calls})]_vars

\* An upsert of a call_id whose row was created earlier has left one row,
\* with the new talkgroup.
C2_Witness ==
    /\ last_op.name = "insert_call_record" /\ last_op.ret = 1
    /\ last_op.arg[1].talkgroup = "56"
    /\ \E r \in calls : r.call_id = last_op.id /\ r.created_at < now
                        /\ r.talkgroup = "56"
    /\ Cardinality(calls) = 1

\* C3: when the batch upsert of a cycle returns 0, the cycle does not move
\* last_poll_time past the timestamp of any of its records.
C3_FailedBatchKeepsWindow ==
    [][(pc = "finish" /\ inserted_count = 0) =>
          \A i \in 1..Len(call_records) :
              call_records[i].timestamp >= last_poll_time']_vars

\* C4: every call the remote API serves has been returned by a fetch or is
\* still inside the window of the next fetch.
C4_NoGap ==
    \A c \in remote :
        c.id \in fetched \/ last_poll_time = NoTime \/ c.ts >= last_poll_time

\* C5: a row's processed flag becomes true only in the step that processes
\* that record's audio, and only when that step leaves the transcoded file
\* of its download behind.
C5_ProcessedOnlyAfterTranscode ==
    [][\A q \in calls' :
          (q.processed /\ q.audio_url # NoUrl
             /\ (\A r \in calls : r.call_id = q.call_id => ~r.processed)) =>
          /\ pc = "audio" /\ call_records[idx].call_id = q.call_id
          /\ \E f \in files' : /\ FileName(f) = <<q.call_id, now,
                                                  config.audio_format>>
                               /\ f.content = "processed"]_vars

C5_Witness ==
    \E r \in calls :
        /\ r.processed /\ r.audio_url # NoUrl
        /\ \E f \in files : f.call_id = r.call_id /\ f.content = "processed"

\* C6 as claimed: at the end of the cycle that ingested it, a record with
\* no audio_url has a processed row.
C6_NoAudioMarkedAtOnce ==
    (pc = "finish" /\ inserted_count > 0) =>
        \A i \in 1..Len(call_records) :
            call_records[i].audio_url = NoUrl =>
                Row(call_records[i].call_id).processed

\* C6 amended: at the end of the cycle that ingested it, a record with no
\* audio_url has a row whose processed flag is false.
C6_NoAudioStaysUnprocessed ==
    (pc = "finish" /\ inserted_count > 0) =>
        \A i \in 1..Len(call_records) :
            call_records[i].audio_url = NoUrl =>
                /\ HasRow(call_records[i].call_id)
                /\ ~Row(call_records[i].call_id).processed

\* A cycle that stored a record without audio next to one whose audio was
\* processed.
C6_Witness ==
    /\ pc = "finish" /\ inserted_count = 2
    /\ \E i, j \in 1..Len(call_records) :
        /\ call_records[i].audio_url = NoUrl
        /\ call_records[j].processed

\* Every record of the batch has its row.
AllPersisted(recs, table) ==
    \A i \in 1..Len(recs) : \E r \in table : Reflects(r, recs[i])

\* C7: insert_call_records_batch returns len(records) with every record
\* persisted, or 0 with the table as it was; an empty batch returns 0.
C7_BatchAllOrNothing ==
    [][(last_op'.name = "insert_call_records_batch" /\ now' = now) =>
          \/ /\ last_op'.arg # <<>>
             /\ last_op'.ret = Len(last_op'.arg)
             /\ AllPersisted(last_op'.arg, calls')
          \/ /\ last_op'.ret = 0
             /\ calls' = calls]_vars

\* A batch of two failed, and the record of it that had no row has none.
C7_Witness ==
    /\ last_op.name = "insert_call_records_batch"
    /\ Len(last_op.arg) = 2 /\ last_op.ret = 0
    /\ last_op.arg[1].call_id # last_op.arg[2].call_id
    /\ ~HasRow(last_op.arg[1].call_id)
    /\ HasRow(last_op.arg[2].call_id)

\* C8: no connection stays checked out once the operation that took it is
\* over.
C8_NoLeakedCheckout == pool_out = 0

\* C9: within one health check an overall status of unhealthy, set by a
\* failed database or API probe, stays unhealthy: no later disk or memory
\* alert turns it into warning.
C9_UnhealthyNotDowngraded ==
    [][(pc # "health_done" /\ health.overall = "unhealthy") =>
          health'.overall = "unhealthy"]_vars

\* C10: a process_audio call that returns None leaves the file it was given
\* in place, its contents as they were.
C10_FailedTranscodeKeepsOriginal ==
    [][(last_op'.name = "process_audio" /\ now' = now
          /\ last_op'.ret = NoFile) =>
          \A f \in files : FileName(f) = last_op'.arg => f \in files']_vars

\* The step is a download_audio call that got as far as the response.
IsDownload(op) ==
    op.name = "download_audio" /\ op.outcome \notin {"no_url", "http_error"}

\* No file of the directory fs2 under the name was written since fs1.
NothingCreated(name, fs1, fs2) == FileAt(fs2, name) \subseteq FileAt(fs1, name)

C12_AbortedDownloadRemovesPartial ==
    [][(IsDownload(last_op') /\ now' = now
          /\ last_op'.outcome = "broken") =>
          /\ last_op'.ret = NoFile
          /\ NothingCreated(last_op'.arg, files, files')]_vars

\* The poll cycle ends: poll_and_process_calls runs to its last statement.
CycleEnds == pc = "finish" /\ pc' = "sched"

\* The call_ids of the cycle under way whose download was refused for a
\* Content-Length over the maximum.
Refused(op) ==
    {op.arg[i][1] : i \in {j \in 1..Len(op.arg) :
                              op.arg[j][2] = "header_refused"}}

\* The store holds the call's row with no audio file and processed = false.
RowUnprocessedNoAudio(table, id) ==
    \E r \in table :
        r.call_id = id /\ r.audio_file_path = NoPath /\ ~r.processed

Failures(op) == {i \in 1..Len(op.arg) : op.arg[i][3] # "done"}

\* The position in the batch of the record with the given call_id.
PositionOf(recs, id) == CHOOSE j \in 1..Len(recs) : recs[j].call_id = id

\* The step is one turn of the audio loop.
AudioStep == pc = "audio" /\ last_op' # last_op

\* C14: in a poll cycle, a record whose download, transcode or
\* mark_call_processed fails does not get its row's processed flag
\* advanced by that processing; the loop goes on (no shutdown, no error
\* exit) to the next record carrying an audio_url or to the end of the
\* cycle; and when the cycle ends, every record with an audio_url that
\* stands after a failed one has been through the audio processing too.
C14_RecordFailureIsolated ==
    [][/\ (AudioStep /\ last_op'.ret = 0) =>
            /\ \A r \in calls' :
                  (r.call_id = last_op'.id /\ r.processed) => r \in calls
            /\ pc' \in {"audio", "finish"} /\ running' /\ exit_code' = NoTime
            /\ \A j \in (idx + 1)..Len(call_records) :
                  call_records[j].audio_url # NoUrl =>
                      pc' = "audio" /\ idx < idx' /\ idx' <= j
       /\ CycleEnds =>
            \A i \in Failures(last_op) :
                \A j \in 1..Len(call_records) :
                    (/\ j > PositionOf(call_records, last_op.arg[i][1])
                     /\ call_records[j].audio_url # NoUrl) =>
                        \E k \in (i + 1)..Len(last_op.arg) :
                            last_op.arg[k][1] = call_records[j].call_id]_vars

\* A second cycle is about to end in which a record failed and a later
\* record was put through the audio processing after it; the first cycle
\* ran to its end with a broken download in it, whose partial file is
\* still there.
C14_Witness ==
    /\ pc = "finish" /\ call_count = 1 /\ running
    /\ \E i \in Failures(last_op) : i < Len(last_op.arg)
    /\ \E f \in files :
        /\ f.content = "partial"
        /\ \A i \in 1..Len(last_op.arg) :
              last_op.arg[i][1] = f.call_id => last_op.arg[i][2] # "broken"

\* The orchestrator's lifecycle state, read off self.running and the place
\* run() stands at: Starting from the entry of run() to the end of the
\* connectivity check, Draining while the finally clause runs _shutdown,
\* Running while self.running is set, Stopped otherwise.
Lifecycle ==
    IF pc \in {"starting", "test_ok", "test_failed"} THEN "Starting"
    ELSE IF pc = "shutdown" THEN "Draining"
    ELSE IF running THEN "Running"
    ELSE "Stopped"

LifecycleEdges ==
    {<<"Stopped", "Starting">>, <<"Starting", "Running">>,
     <<"Running", "Draining">>, <<"Draining", "Stopped">>,
     <<"Starting", "Stopped">>}

\* A poll cycle is under way; a scheduled task is under way.
InCycle == pc \in {"poll", "upsert", "audio", "finish"}
InTask == pc \in {"maintenance", "health"}

C16_FailedStartLeavesNothing ==
    [][(pc = "test_failed" /\ pc' = "exit") =>
          /\ exit_code' # 0 /\ exit_code' # NoTime
          /\ fetched' = {} /\ call_count' = 0 /\ calls' = {} /\ files' = {}
          /\ ~running'
          /\ pool_closed']_vars

\* C17: once the shutdown flag is set in Running, a poll cycle under way
\* is not broken off (it goes on to its own end), the process leaves only
\* through _shutdown, with the pool closed and exit status 0, and it does
\* get there: the orchestrator is eventually Stopped.
C17_SignalDrainsAndStops ==
    /\ [][/\ (InCycle /\ shutdown_event) => pc' \notin {"shutdown", "exit"}
          /\ ~(Lifecycle = "Running" /\ pc' = "exit")
          /\ (pc = "shutdown" /\ pc' = "exit") =>
                pool_closed' /\ exit_code' = 0 /\ ~running']_vars
    /\ (Lifecycle = "Running" /\ shutdown_event) ~>
          (Lifecycle = "Stopped" /\ pc = "exit" /\ exit_code = 0
             /\ pool_closed)

\* The flag was set while a poll cycle was under way, and the cycle has
\* gone on through its audio processing to its last statement.
C17_Witness ==
    /\ pc = "finish" /\ shutdown_event /\ Lifecycle = "Running"
    /\ last_op.name = "_process_call_audio" /\ last_op.ret = 1

\* A poll cycle starts: the while condition has held and
\* poll_and_process_calls is entered (the test and the call that follows
\* it are one step of the main thread).
CycleStarts == pc # "poll" /\ pc' = "poll"

\* A scheduled task starts: run_pending calls run_maintenance_tasks or
\* perform_health_check.
TaskStarts == pc \notin {"maintenance", "health"} /\ InTask'

\* C18: no poll cycle starts once the shutdown flag is set, whether it was
\* set during a cycle, during the scheduled tasks or during the wait
\* between polls: from any of these places with the flag set the main
\* thread goes on without entering poll_and_process_calls.
C18_NoCycleAfterFlag ==
    [][/\ CycleStarts => ~shutdown_event
       /\ (shutdown_event /\ ~InCycle) => ~InCycle']_vars

\* The loop was left for _shutdown with the flag set after one whole poll
\* cycle, and no further cycle was started.
C18_Witness ==
    /\ pc = "shutdown" /\ shutdown_event /\ running
    /\ call_count = 1 /\ last_poll_time # NoTime

\* C19: no maintenance run and no scheduled health check starts once the
\* shutdown flag is set.
C19_NoTaskAfterFlag ==
    [][TaskStarts => ~shutdown_event]_vars

\* C20: a scheduled task under way does not hold the polling up: while a
\* maintenance run or a health check is in progress the next poll cycle
\* can start.
C20_TaskDoesNotBlockPoll ==
    InTask => ENABLED (LoopCheck /\ CycleStarts)

\* The batch upsert of the cycle fails: insert_call_records_batch returns 0
\* for a batch that is not empty.
UpsertFails == pc = "upsert" /\ pc' \in {"audio", "finish"} /\ inserted_count' = 0

\* An exception breaks the cycle off and record_error counts it.
CycleAborts == InCycle /\ error_count' # error_count

\* C21: a store failure or any other exception inside a poll cycle or a
\* maintenance run does not end the main loop. A failed batch upsert
\* returns 0 and writes nothing, and the cycle goes on; an exception that
\* breaks a cycle off is counted and the loop goes on to the scheduled
\* tasks; a maintenance run always returns to run_pending; and the loop is
\* left for _shutdown only from its while test or its wait, with the
\* shutdown flag set.
C21_FailureKeepsLoop ==
    [][/\ UpsertFails => calls' = calls /\ Lifecycle' = "Running"
       /\ CycleAborts =>
            /\ pc' = "sched" /\ Lifecycle' = "Running"
            /\ calls' = calls /\ error_count' = error_count + 1
       /\ (pc = "maintenance" /\ pc' # pc) =>
            pc' = "sched_health" /\ Lifecycle' = "Running"
       /\ (pc # "shutdown" /\ pc' = "shutdown") =>
            pc \in {"loop", "wait"} /\ shutdown_event
       /\ (InCycle \/ InTask) => exit_code' = NoTime]_vars

\* C21 witness: after a cycle was broken off by an exception the loop has
\* come round to its next poll cycle, which starts with the pool exhausted
\* and so with a batch upsert that will fail.
C21_Witness ==
    /\ pc = "poll" /\ Lifecycle = "Running" /\ ~shutdown_event
    /\ error_count = 1 /\ calls = {}
    /\ ~PoolAvailable(pool_out)

\* The step is a retention clean-up with retention_days > 0.
IsPrune == last_op'.name = "run_maintenance_tasks" /\ config.retention_days > 0

\* C22: after a clean-up with retention D > 0, no row that a completed
\* DELETE left behind has a created_at more than D days back and no file
\* that a completed directory sweep left behind has a modification time
\* more than D days back; and no row or file less than D days old has
\* been removed, whether the clean-up ran to its end or failed.
C22_RetentionCutoff ==
    [][IsPrune =>
          /\ last_op'.arg[1] = "done" =>
                \A r \in calls' : now - r.created_at <= config.retention_days
          /\ last_op'.arg[2] = "done" =>
                \A f \in files' : now - f.mtime <= config.retention_days
          /\ \A r \in calls \ calls' :
                ~(now - r.created_at < config.retention_days)
          /\ \A f \in files \ files' :
                ~(now - f.mtime < config.retention_days)]_vars

\* A clean-up with retention_days = 1 has removed a row and a file two or
\* more days old and left a younger row and a younger file in place.
C22_Witness ==
    /\ last_op.name = "run_maintenance_tasks" /\ last_op.arg = <<"done", "done">>
    /\ config.retention_days = 1 /\ last_op.ret > 0
    /\ calls # {} /\ files # {}
    /\ OldFiles \ files # {}

\* The call_ids of the table; the names of the directory.
IdsOf(table) == {r.call_id : r \in table}
NamesOf(fs) == {FileName(f) : f \in fs}

\* C23: rows are deleted and files are removed for their age only by a
\* maintenance run. A step that takes a row out of the table is
\* run_maintenance_tasks; in a poll cycle no row goes and the only file
\* that can go is the one the record in hand is being downloaded or
\* transcoded to; no other step removes a row or a file.
C23_PruneOnlyInMaintenance ==
    [][/\ IdsOf(calls) \ IdsOf(calls') # {} => pc = "maintenance"
       /\ InCycle =>
            /\ IdsOf(calls) \subseteq IdsOf(calls')
            /\ \A n \in NamesOf(files) \ NamesOf(files') :
                  /\ pc = "audio"
                  /\ n = <<call_records[idx].call_id, now, config.audio_format>>
       /\ NamesOf(files) \ NamesOf(files') # {} =>
            pc \in {"maintenance", "audio"}]_vars

\* A maintenance run that followed a whole poll cycle has taken the old
\* row and the old file away; what the cycle stored is still there.
C23_Witness ==
    /\ pc = "sched_health" /\ call_count = 1
    /\ calls # {} /\ \A r \in calls : r.created_at >= 1
    /\ files # {} /\ \A f \in files : f.mtime >= 1

\* The step is a fetch_calls call; what it met and what came of it.
IsFetch == last_op'.name = "fetch_calls"
Met == last_op'.arg[1]
Returned == last_op'.ret
NeverRaises == last_op'.id = "none"

\* The body is an envelope fetch_calls knows: an array, or an object with
\* a calls key or a data key.
Recognized(body) ==
    body.k = "list" \/ (body.k = "obj" /\ (body.calls # Absent \/ body.data # Absent))

\* The values the envelope offers for the call list.
Offered(body) ==
    IF body.k = "list" THEN {[k |-> "list", v |-> body.v]}
    ELSE {body.calls, body.data} \ {Absent}

\* C24 as claimed: fetch_calls never raises; on a network error, a
\* timeout, an HTTP error status, malformed JSON or an envelope it does
\* not know it returns the empty list; a bare array, or the value under
\* the calls or the data key of an object, is returned as the call list.
C24_FetchFailsSoft ==
    [][IsFetch =>
          /\ NeverRaises
          /\ (Met.transport # "ok" \/ ~Recognized(Met.body)) =>
                Returned = EmptyList
          /\ (Met.transport = "ok" /\ Recognized(Met.body)) =>
                Returned \in Offered(Met.body)]_vars

\* C24 amended: the same, the value under the key being returned when it
\* has a length (an array, a string); a value with none (null, a number)
\* makes len() raise in the log line and the empty list is returned.
C24_FetchFailsSoftSized ==
    [][IsFetch =>
          /\ NeverRaises
          /\ (Met.transport # "ok" \/ ~Recognized(Met.body)) =>
                Returned = EmptyList
          /\ (Met.transport = "ok" /\ Recognized(Met.body)) =>
                /\ Returned = Envelope(Met.body)
                     \/ (~Sized(Envelope(Met.body)) /\ Returned = EmptyList)
                /\ Sized(Envelope(Met.body)) => Returned \in Offered(Met.body)]_vars

\* fetch_calls has returned the array under the data key of an object with
\* no calls key.
C24_Witness ==
    /\ last_op.name = "fetch_calls" /\ last_op.id = "none"
    /\ last_op.arg[1].transport = "ok" /\ last_op.arg[1].body.k = "obj"
    /\ last_op.arg[1].body.calls = Absent
    /\ last_op.ret = last_op.arg[1].body.data /\ last_op.ret.k = "list"
    /\ last_op.ret.v # <<>>


\* ---------------------------------------------------------------------
\* C25: one malformed record in a batch

IsIngest(op) == op.name = "poll_and_process_calls"

\* The positions of a batch whose raw call parse_call_record cannot parse.
Malformed(raws) == {i \in 1..Len(raws) : ParseRaises(raws[i])}

\* The call_id a raw call that parses carries, "" when it carries none.
RawId(raw) ==
    IF Truthy(Get(raw, "id")) THEN Get(raw, "id").s
    ELSE IF Truthy(Get(raw, "call_id")) THEN Get(raw, "call_id").s
    ELSE ""

\* The other records of the batch were parsed: one record for each raw
\* call that is well formed, in the order of the batch, none of them None.
OthersParsed(raws, recs) ==
    /\ Len(recs) = Len(raws) - 1
    /\ \A j \in 1..Len(recs) : recs[j] # NoRecord
    /\ \A i \in (1..Len(raws)) \ Malformed(raws) :
          RawId(raws[i]) # "" =>
              \E j \in 1..Len(recs) : recs[j].call_id = RawId(raws[i])

Stored(recs, table) ==
    \A j \in 1..Len(recs) : \E r \in table : r.call_id = recs[j].call_id

Parsable == {raw \in remote : ~ParseRaises(raw)}

\* C26: parsing the same raw call in two cycles gives the same call_id,
\* also when the call carries no id and no call_id and one is generated,
\* so a call that is delivered again never adds a second row: the table
\* has at most one row for each raw call delivered.
C26_RedeliveryAddsNoRow == Cardinality(calls) <= Cardinality(Parsable)


\* ---------------------------------------------------------------------
\* C27: one call with audio through one cycle

\* The methods _process_call_audio has called when it ends at a stage:
\* download_audio, then process_audio, then mark_call_processed. No
\* statement of the program calls calculate_checksum.
StepsRun(stage) ==
    IF stage = "download" THEN {"download_audio"}
    ELSE IF stage = "transcode" THEN {"download_audio", "process_audio"}
    ELSE {"download_audio", "process_audio", "mark_call_processed"}

\* The cycle at its last step took in one record with audio, stored it,
\* and its download and its transcode succeeded.
OneCallThrough ==
    /\ pc = "finish"
    /\ Len(call_records) = 1
    /\ inserted_count = 1
    /\ Len(last_op.arg) = 1
    /\ last_op.arg[1][1] = call_records[1].call_id
    /\ last_op.arg[1][3] = "done"

\* C27: given one raw call with an id, a numeric timestamp, a talkgroup
\* and an audio_url whose download and transcode succeed, after the cycle
\* the table has exactly one row with that call_id and talkgroup and
\* processed = TRUE, an audio file of the call exists, and a checksum has
\* been computed for that file.
C27_OneCallIngested ==
    OneCallThrough =>
        /\ Cardinality({r \in calls :
                            r.call_id = call_records[1].call_id}) = 1
        /\ \A r \in calls :
              r.call_id = call_records[1].call_id =>
                  r.talkgroup = call_records[1].talkgroup /\ r.processed
        /\ \E f \in files : f.call_id = call_records[1].call_id
        /\ "calculate_checksum" \in StepsRun(last_op.arg[1][3])

\* The part of C27 the program does: row, flag and file.
OneCallRowAndFile ==
    OneCallThrough =>
        /\ Cardinality({r \in calls :
                            r.call_id = call_records[1].call_id}) = 1
        /\ \A r \in calls :
              r.call_id = call_records[1].call_id =>
                  r.talkgroup = call_records[1].talkgroup /\ r.processed
        /\ \E f \in files : f.call_id = call_records[1].call_id


\* ---------------------------------------------------------------------
\* C28: last_poll_time moves at the end of a cycle only

\* A cycle ends without having reached its last statement: it returns
\* early from the fetch or the parse loop, or an exception breaks it off.
CycleCutShort == pc \in {"poll", "upsert"} /\ pc' = "sched"

\* C28: last_poll_time changes only in the last step of a poll cycle,
\* when fetch, parse, batch upsert and the audio processing of every
\* record are over, and it is then set to the clock; a cycle that returns
\* early (empty fetch, no record parsed) or is broken off by an exception
\* leaves it as it was.
C28_LastPollTimeAtCycleEnd ==
    [][/\ (last_poll_time' # last_poll_time =>
              /\ pc = "finish" /\ pc' = "sched"
              /\ call_records # <<>>
              /\ idx > Len(call_records)
              /\ last_poll_time' = now)
       /\ (CycleCutShort => last_poll_time' = last_poll_time)]_vars

\* C28 witness: calls were fetched and the cycle was broken off by an
\* exception; no cycle has finished and last_poll_time is still unset.
C28_Witness ==
    /\ pc = "sched"
    /\ error_count > 0
    /\ call_count = 0
    /\ fetched # {}
    /\ last_poll_time = NoTime


\* ---------------------------------------------------------------------
\* C29: no pool connection during a network call

\* The main thread is at a network call: the API fetch of a cycle, or the
\* audio download of a record.
AtNetworkCall == pc \in {"poll", "audio"}

\* C29: while an audio download or an API fetch is in progress, the
\* thread that performs it has no connection checked out of the pool.
C29_NoCheckoutAcrossNetwork == AtNetworkCall => pool_out = 0


\* ---------------------------------------------------------------------
\* C30: created_at is written once

\* The call_ids the last call wrote rows for: those of the record or the
\* batch of an upsert that succeeded, or the id of a mark that found its
\* row.
Written(op) ==
    IF op.ret = 0 THEN {}
    ELSE IF op.name = "insert_call_record" THEN {op.id}
    ELSE IF op.name = "insert_call_records_batch"
    THEN {op.arg[i].call_id : i \in 1..Len(op.arg)}
    ELSE IF op.name = "mark_call_processed" THEN {op.id}
    ELSE {}

\* C30: created_at of a row is set when its call_id is inserted first, to
\* the clock of that insertion, and no later upsert of the call_id and no
\* mark_call_processed changes it.
C30_CreatedAtSetOnce ==
    [][last_op'.name \in {"insert_call_record", "insert_call_records_batch",
                          "mark_call_processed"} =>
          /\ \A r \in calls : \A q \in calls' :
                q.call_id = r.call_id => q.created_at = r.created_at
          /\ \A q \in calls' :
                (\A r \in calls : r.call_id # q.call_id) =>
                    q.created_at = now]_vars

\* C30 witness: a call that was inserted at an earlier clock value has
\* just been written again and its row carries the earlier created_at.
C30_Witness ==
    /\ last_op.name \in {"insert_call_record", "insert_call_records_batch",
                         "mark_call_processed"}
    /\ \E r \in calls : r.call_id \in Written(last_op) /\ r.created_at < now


\* ---------------------------------------------------------------------
\* C31: retention_days <= 0 keeps everything

IsCleanup(op) == op.name \in {"cleanup_old_files", "run_maintenance_tasks"}

\* C31: with retention_days <= 0, cleanup_old_files deletes no file and
\* returns 0, and a maintenance run deletes no row (and no file).
C31_NoRetentionNoDelete ==
    [][(IsCleanup(last_op') /\ config.retention_days <= 0) =>
          /\ files' = files
          /\ calls' = calls
          /\ last_op'.ret = 0]_vars

\* C31 witness: with retention_days <= 0 and a row and a file from an
\* earlier day at hand, cleanup_old_files has been called and has
\* returned 0.
C31_Witness ==
    /\ last_op.name = "cleanup_old_files" /\ last_op.ret = 0
    /\ config.retention_days <= 0
    /\ \E f \in files : f.mtime < now
    /\ \E r \in calls : r.created_at < now


\* ---------------------------------------------------------------------
\* C32: the window of processing durations

\* No record_call_processed stands between its append and its trim.
NoTrimPending == \A t \in Threads : workers[t].pc # "rcp_trim"

\* The last n elements of a sequence.
LastOf(seq, n) == SubSeq(seq, Len(seq) - n + 1, Len(seq))

\* C32: after any sequence of record_call_processed calls the window
\* holds at most WindowSize samples (1000 in the program), and they are
\* the durations recorded last, in the order they arrived.
C32_WindowKeepsLatest ==
    NoTrimPending =>
        /\ Len(processing_times) <= WindowSize
        /\ processing_times = LastOf(recorded, Min(Len(recorded), WindowSize))

\* C32 witness: more durations than the window holds have been recorded,
\* the oldest differs from the newest, and the window is full.
C32_Witness ==
    /\ \A t \in Threads : workers[t].pc = "idle"
    /\ Len(recorded) > WindowSize
    /\ recorded[1] # recorded[Len(recorded)]
    /\ Len(processing_times) = WindowSize

\* ---------------------------------------------------------------------
\* C33: the monitor's methods exclude one another

Inside == {t \in Threads : workers[t].pc \notin {"idle", "acquire"}}
AllIdle == \A t \in Threads : workers[t].pc = "idle"

RECURSIVE SumOver(_, _)
SumOver(f, S) ==
    IF S = {} THEN 0
    ELSE LET t == CHOOSE x \in S : TRUE IN f[t] + SumOver(f, S \ {t})

CallsDone == SumOver([t \in Threads |-> workers[t].calls_done], Threads)
ErrorsDone == SumOver([t \in Threads |-> workers[t].errors_done], Threads)

\* A snapshot a thread has finished building.
Snapshots ==
    {workers[t].snap : t \in {u \in Threads : workers[u].pc # "stats_counts"}}

\* C33: record_call_processed, record_error and get_system_stats exclude
\* one another: at most one thread is inside a method body; no counter
\* update is lost (with every call returned, call_count is the number of
\* record_call_processed calls made and error_count the number of
\* record_error calls); and no snapshot has a call_count whose duration
\* sample it has not seen.
C33_MonitorAtomic ==
    /\ Cardinality(Inside) <= 1
    /\ AllIdle => call_count = CallsDone /\ error_count = ErrorsDone
    /\ \A sn \in Snapshots : sn.samples = Min(sn.calls, WindowSize)

\* C33 witness: the poll thread is inside record_call_processed, with
\* call_count incremented and the sample not yet appended, while the
\* health thread has called get_system_stats and waits for the lock.
C33_Witness ==
    /\ workers["poll"].pc = "rcp_append"
    /\ workers["health"].pc = "acquire"
    /\ workers["health"].op = "get_system_stats"
    /\ lock = "poll"


\* ---------------------------------------------------------------------
\* C34: the priority of the candidate keys

RECURSIVE FirstCarried(_, _)
\* The value under the first candidate key the record has, None when it
\* has none of them.
FirstCarried(raw, keys) ==
    IF keys = <<>> THEN None
    ELSE IF keys[1] \in DOMAIN raw THEN raw[keys[1]]
    ELSE FirstCarried(raw, Tail(keys))

\* C34: parse_call_record takes each field from the first candidate key,
\* in priority order, that carries a value (id, call_id; timestamp, time,
\* datetime; talkgroup, tg; audio_url, audioUrl, audio, file), also when
\* the value under a key of higher priority is 0 or the empty string.
C34_FirstKeyWins ==
    last_op.name = "parse_call_record" =>
        LET raw == last_op.arg[1]
            rec == call_records[1]
            idv == FirstCarried(raw, IdKeys)
            tsv == FirstCarried(raw, TimestampKeys)
            tgv == FirstCarried(raw, TalkgroupKeys)
            urlv == FirstCarried(raw, AudioUrlKeys)
        IN /\ rec # NoRecord
           /\ idv # None => rec.call_id = PyStr(idv)
           /\ tsv.k = "num" => rec.timestamp = tsv.n
           /\ tgv # None => rec.talkgroup = PyStr(tgv)
           /\ urlv # None => rec.audio_url = PyStr(urlv)

\* What parse_call_record does: each field comes from the first candidate
\* key whose value is truthy.
FirstTruthyWins ==
    last_op.name = "parse_call_record" =>
        LET raw == last_op.arg[1]
            rec == call_records[1]
            Good(keys) == SelectSeq(keys, LAMBDA k : Truthy(Get(raw, k)))
        IN /\ rec # NoRecord
           /\ Good(IdKeys) # <<>> =>
                 rec.call_id = PyStr(raw[Good(IdKeys)[1]])
           /\ Good(TimestampKeys) # <<>> =>
                 rec.timestamp = raw[Good(TimestampKeys)[1]].n
           /\ Good(TalkgroupKeys) # <<>> =>
                 rec.talkgroup = PyStr(raw[Good(TalkgroupKeys)[1]])
           /\ Good(AudioUrlKeys) # <<>> =>
                 rec.audio_url = PyStr(raw[Good(AudioUrlKeys)[1]])


\* ---------------------------------------------------------------------
\* C35: normalization of a file with a non-zero peak

\* C35: with normalize_audio on, process_audio of a file that decodes and
\* whose peak amplitude is not 0 applies the normalization and returns
\* the processed path, not None.
C35_NormalizeReturnsPath ==
    [][(last_op'.name = "process_audio" /\ now' = now
          /\ config.normalize_audio /\ last_op'.outcome = "audible") =>
          last_op'.ret # NoFile]_vars


\* ---------------------------------------------------------------------
\* C36: audio only after a batch upsert that succeeded

\* C36: audio is downloaded and mark_call_processed is called only for
\* records whose batch upsert in the same cycle succeeded: when
\* insert_call_records_batch returned 0, the audio loop of the cycle
\* writes no file and marks no row, and no file is left without a row.
C36_NoAudioAfterFailedUpsert ==
    [][(pc = "audio" /\ inserted_count = 0) =>
          /\ files' = files
          /\ calls' = calls
          /\ \A f \in files' : \E r \in calls' : r.call_id = f.call_id]_vars


\* ---------------------------------------------------------------------
\* C37: the audio path of a processed row

\* C37: every row with processed = TRUE that carries an audio_url has an
\* audio_file_path that is not NULL: the path process_audio returned is
\* written to the store, not to the record in memory alone.
C37_ProcessedRowHasPath ==
    \A r \in calls :
        (r.processed /\ r.audio_url # NoUrl) => r.audio_file_path # NoPath


\* ---------------------------------------------------------------------
\* C38: one audio file per call

\* C38: the audio of a call whose row is processed is not downloaded
\* again when the call is delivered again in a later cycle: whatever the
\* poll cycles, the storage directory holds at most one audio file for a
\* call_id.
C38_OneArtifactPerCall ==
    \A f, g \in files : f.call_id = g.call_id => f = g


\* ---------------------------------------------------------------------
\* C39: the batch upsert against one upsert per record

RECURSIVE OneByOne(_, _, _, _, _)
\* insert_call_record called on records 1..n of the list, in list order.
OneByOne(table, recs, n, t, out) ==
    IF n = 0 THEN table
    ELSE InsertCallRecord(OneByOne(table, recs, n - 1, t, out), recs[n], t,
                          out, FALSE).table

\* C39: for any list of records, lists that repeat a call_id among them,
\* insert_call_records_batch leaves the table as one insert_call_record
\* per record, in list order, would leave it.
C39_BatchEqualsOneByOne ==
    \A recs \in Batches :
        InsertCallRecordsBatch(calls, recs, now, pool_out, 0).table =
            OneByOne(calls, recs, Len(recs), now, pool_out)

\* The two agree on the lists that repeat no call_id.
BatchEqualsOneByOneNoRepeat ==
    \A recs \in {b \in Batches : FirstRepeat(b) = 0} :
        InsertCallRecordsBatch(calls, recs, now, pool_out, 0).table =
            OneByOne(calls, recs, Len(recs), now, pool_out)


\* ---------------------------------------------------------------------
\* C40: the two size guards of download_audio

\* A response whose Content-Length is the size of its payload, sent whole.
Truthful(resp) ==
    /\ resp.status = "ok" /\ resp.declared # NoLength
    /\ resp.declared = resp.actual /\ resp.breaks = NoLength

\* C40: the header guard and the streaming guard agree for every
\* max_file_size, 0 included: a payload whose declared Content-Length is
\* its size is refused by the header guard exactly when the streaming
\* guard would stop it.
C40_SizeGuardsAgree ==
    \A resp \in {r \in AudioResponses : Truthful(r)} :
        Advertised(resp, config.max_file_size) <=>
            Streamed(resp, config.max_file_size).why = "too_large"

\* The two guards agree when max_file_size is positive.
SizeGuardsAgreePositive ==
    config.max_file_size > 0 =>
        \A resp \in {r \in AudioResponses : Truthful(r)} :
            Advertised(resp, config.max_file_size) <=>
                Streamed(resp, config.max_file_size).why = "too_large"

====
